---------------------------- MODULE Spec2Model ----------------------------
(***************************************************************************)
(* Model of the eBay keyword search tool (yuzo-AI/ebay_keyword_search):    *)
(* price parsing, configuration loading, profit evaluation, model-number   *)
(* extraction and the row orchestrators.                                   *)
(*                                                                         *)
(* Text is a sequence of one-character strings.  A character outside       *)
(* ASCII is written as a named token: "yen" is the yen sign, "k_no",       *)
(* "k_sa", "k_mu", "k_ne", "k_i", "k_ru" are the kana of the thumbnail     *)
(* suffix.  Python floats are modelled as exact rationals [n, d].          *)
(***************************************************************************)
EXTENDS Integers, Sequences, FiniteSets, TLC

VARIABLES
    pc,                 \* position of the running call
    price_text,         \* parse_price: the argument
    parsed,             \* parse_price: the outcome (a number, or a raised exception)
    config_file,        \* the state of config/config.yaml
    config,             \* the dictionary load_config returned
    caller,             \* the orchestrator that processes the row
    mercari_price_text, \* the row's price column, as text
    mercari_price,      \* parse_price of it
    table_rows,         \* the research table rows of the result page
    profitable_products,\* extract_highest_price_product: the list built by its row loop
    highest_product,    \* what extract_highest_price_product returned
    worker_result,      \* what process_single_item returned
    result_row,         \* the six appended columns of the row in result_df
    cell,               \* the title cell of the row, or the argument of a direct call
    product_name,       \* str() of the title cell
    model_numbers,      \* what extract_model_numbers returned, or that it raised
    model_number,       \* model_numbers[0], the identifier that is searched
    first_run,          \* what an earlier run of the program got for the same row
    program,            \* the orchestrator of a whole run
    df,                 \* the input rows
    result_df,          \* the result frame: row label -> appended cells
    next_index,         \* the row the sequential loop handles next
    futures,            \* parallel: row label -> state of the submitted item
    extraction_results, \* main.py: the list of extraction results
    search_results,     \* main.py: the list of search results
    profit_items,       \* main.py: the list handed to the profit calculation
    output,             \* the written result file
    waits,              \* main.py: the items after whose rate limit the loop slept
    searches,           \* the searches issued: the item and the identifier searched
    browsers,           \* parallel: the items for which setup_driver was called
    max_workers,        \* parallel: the size of the thread pool
    drivers,            \* the browser sessions opened: who opened it, who used it, open or not
    prompts,            \* the number of login prompts issued (calls of input)
    writes,             \* the writes to the result table: the row and the writer
    csv_file,           \* WatchModelExtractor: the input file
    target_brands,      \* the requested brands (None: detect), then the extracted ones
    detection,          \* what detect_brand returned and from which counts
    brand_index,        \* the position of the brand loop in target_brands
    extracted_models,   \* the list of all entries
    brand_summary,      \* the brands extracted, with the number of their entries
    saved_files,        \* the two files extract_model_numbers writes
    cli_args,           \* main.py: the command line and the state of the input file
    calls,              \* main.py: the calls made to the collaborators, in order
    cli_result,         \* main.py: how the tool ended
    exit_code           \* main.py: the exit code of the process, -1 while it runs

vars == <<pc, price_text, parsed, config_file, config, caller, mercari_price_text,
          mercari_price, table_rows, profitable_products, highest_product,
          worker_result, result_row, cell, product_name, model_numbers, model_number,
          first_run,
          program, df, result_df, next_index, futures, extraction_results,
          search_results, profit_items, output, waits, searches, browsers,
          max_workers, drivers, prompts, writes,
          csv_file, target_brands, detection, brand_index, extracted_models,
          brand_summary, saved_files, cli_args, calls, cli_result, exit_code>>

priceVars == <<price_text, parsed>>
configVars == <<config_file, config>>
rowVars == <<caller, mercari_price_text, mercari_price, table_rows,
             profitable_products, highest_product, worker_result, result_row>>
extractVars == <<cell, product_name, model_numbers, model_number, first_run>>
sessionVars == <<max_workers, drivers, prompts, writes>>
runVars == <<program, df, result_df, next_index, futures, extraction_results,
             search_results, profit_items, output, waits, searches, browsers, sessionVars>>
brandVars == <<csv_file, target_brands, detection, brand_index, extracted_models,
               brand_summary, saved_files>>
cliVars == <<cli_args, calls, cli_result, exit_code>>
toolVars == <<brandVars, cliVars>>

-----------------------------------------------------------------------------
(* Bounds of the model *)

\* longest enumerated input text
MaxLen == 4

\* most rows of an input file
MaxItems == 2

\* longest enumerated title
MaxTitleLen == 4

\* most rows of an enumerated result page
MaxTableRows == 2

-----------------------------------------------------------------------------
(* Exact rational arithmetic standing for Python float arithmetic *)

RECURSIVE Gcd(_, _)
Gcd(a, b) == IF b = 0 THEN a ELSE Gcd(b, a % b)

Abs(x) == IF x < 0 THEN -x ELSE x

\* the rational n/d in lowest terms, d > 0
Rat(n, d) ==
    LET g == Gcd(Abs(n), d)
    IN  [n |-> n \div g, d |-> d \div g]

RInt(k) == [n |-> k, d |-> 1]
RZero == RInt(0)
RAdd(a, b) == Rat(a.n * b.d + b.n * a.d, a.d * b.d)
RSub(a, b) == Rat(a.n * b.d - b.n * a.d, a.d * b.d)
RMul(a, b) == Rat(a.n * b.n, a.d * b.d)
RLe(a, b) == a.n * b.d <= b.n * a.d
RLt(a, b) == a.n * b.d < b.n * a.d
RGe(a, b) == RLe(b, a)
RGt(a, b) == RLt(b, a)

RECURSIVE Pow10(_)
Pow10(k) == IF k = 0 THEN 1 ELSE 10 * Pow10(k - 1)

-----------------------------------------------------------------------------
(* Characters *)

Digits == {"0", "1", "2", "3", "4", "5", "6", "7", "8", "9"}

DigitValue(c) ==
    CASE c = "0" -> 0 [] c = "1" -> 1 [] c = "2" -> 2 [] c = "3" -> 3
      [] c = "4" -> 4 [] c = "5" -> 5 [] c = "6" -> 6 [] c = "7" -> 7
      [] c = "8" -> 8 [] c = "9" -> 9

\* Python's None
NoneVal == <<"None">>

\* s with every occurrence of character c removed: str.replace(c, '')
RECURSIVE RemoveChar(_, _)
RemoveChar(s, c) ==
    IF s = <<>> THEN <<>>
    ELSE IF Head(s) = c THEN RemoveChar(Tail(s), c)
    ELSE <<Head(s)>> \o RemoveChar(Tail(s), c)

\* length of the longest run of characters of class cls starting at s[i]
RECURSIVE RunLen(_, _, _)
RunLen(s, i, cls) ==
    IF i <= Len(s) /\ s[i] \in cls THEN 1 + RunLen(s, i + 1, cls) ELSE 0

\* first index >= i whose character is in cls, 0 when there is none
RECURSIVE FirstIn(_, _, _)
FirstIn(s, i, cls) ==
    IF i > Len(s) THEN 0
    ELSE IF s[i] \in cls THEN i
    ELSE FirstIn(s, i + 1, cls)

\* the value of a string of decimal digits
RECURSIVE DigitsValue(_)
DigitsValue(s) ==
    IF s = <<>> THEN 0
    ELSE 10 * DigitsValue(SubSeq(s, 1, Len(s) - 1)) + DigitValue(s[Len(s)])

-----------------------------------------------------------------------------
(* parse_price *)

ValueError == [exc |-> "ValueError"]
AttributeError == [exc |-> "AttributeError"]

\* Python float(text) for a text of digits and at most one dot
Float(s) ==
    LET dot == FirstIn(s, 1, {"."})
        ip  == IF dot = 0 THEN s ELSE SubSeq(s, 1, dot - 1)
        fp  == IF dot = 0 THEN <<>> ELSE SubSeq(s, dot + 1, Len(s))
    IN  IF ip = <<>> /\ fp = <<>> THEN ValueError
        ELSE IF \E i \in 1..Len(ip) : ip[i] \notin Digits THEN ValueError
        ELSE IF \E i \in 1..Len(fp) : fp[i] \notin Digits THEN ValueError
        ELSE Rat(DigitsValue(ip) * Pow10(Len(fp)) + DigitsValue(fp), Pow10(Len(fp)))

\* re.search(r'[\d,]+\.?\d*', s): the matched text, NoneVal when nothing matches
PriceSearch(s) ==
    LET start == FirstIn(s, 1, Digits \cup {","})
    IN  IF start = 0 THEN NoneVal
        ELSE LET n1   == RunLen(s, start, Digits \cup {","})
                 p    == start + n1
                 ndot == IF p <= Len(s) /\ s[p] = "." THEN 1 ELSE 0
                 n2   == RunLen(s, p + ndot, Digits)
             IN  SubSeq(s, start, p + ndot + n2 - 1)

\* the variant of parse_price that uses the match without testing it
ParsePriceUnguarded(text) ==
    IF text = NoneVal \/ text = <<>> THEN RZero
    ELSE LET m == PriceSearch(RemoveChar(text, ","))
         IN  IF m = NoneVal THEN AttributeError
             ELSE LET v == Float(RemoveChar(m, ","))
                  IN  IF v = ValueError THEN RZero ELSE v

\* the variant of parse_price that searches the text with its separators left in
ParsePriceKeepSeparators(text) ==
    IF text = NoneVal \/ text = <<>> THEN RZero
    ELSE LET m == PriceSearch(text)
         IN  IF m = NoneVal THEN RZero
             ELSE LET v == Float(m)
                  IN  IF v = ValueError THEN RZero ELSE v

\* parse_price(price_text): the number returned, or the exception raised
ParsePrice(text) ==
    IF text = NoneVal \/ text = <<>> THEN RZero
    ELSE LET m == PriceSearch(RemoveChar(text, ","))
         IN  IF m = NoneVal THEN RZero
             ELSE LET v == Float(RemoveChar(m, ","))
                  IN  IF v = ValueError THEN RZero ELSE v

-----------------------------------------------------------------------------
(* Inputs of parse_price *)

PriceAlphabet == {"1", "5", "0", ".", ",", "$", "N"}

RECURSIVE TextsOfLen(_, _)
TextsOfLen(alphabet, k) ==
    IF k = 0 THEN {<<>>}
    ELSE {<<c>> \o t : c \in alphabet, t \in TextsOfLen(alphabet, k - 1)}

TextsUpTo(alphabet, k) == UNION {TextsOfLen(alphabet, j) : j \in 0..k}

\* the price texts of the documented examples
PriceExamples ==
    { <<"$", "1", ",", "6", "2", "5", ".", "0", "0">>,
      <<"yen", "1", "5", "0", ",", "0", "0", "0">>,
      <<"N", "/", "A">>,
      <<"n", "a", "n">> }

PriceTexts == TextsUpTo(PriceAlphabet, MaxLen) \cup PriceExamples \cup {NoneVal}

-----------------------------------------------------------------------------
(* load_config *)

RequiredKeys == {"markup_rate", "fixed_profit", "fixed_rate"}
FilterKeys == {"enable_price_filter", "min_price", "max_price"}
ConfigKeys == RequiredKeys \cup FilterKeys

\* The configuration is the YAML mapping flattened to its leaves:
\*   profit_calculation.markup_rate, profit_calculation.fixed_profit,
\*   exchange_rate.fixed_rate, ebay.price_filter.{enable_price_filter,
\*   min_price, max_price}.  A leaf that the file does not give is not in
\*   the DOMAIN of the mapping.

\* the dictionary returned when the file is absent or reading it fails
DefaultConfig ==
    [k \in RequiredKeys |->
        CASE k = "markup_rate"  -> Rat(2, 10)
          [] k = "fixed_profit" -> RInt(3000)
          [] k = "fixed_rate"   -> RInt(150)]

\* load_config(): the dictionary returned for a state of config/config.yaml
LoadConfig(file) ==
    IF file.kind = "absent" THEN DefaultConfig
    ELSE IF file.kind = "unparseable" THEN DefaultConfig
    ELSE IF RequiredKeys \subseteq DOMAIN file.content THEN file.content
    ELSE DefaultConfig

\* dict.get(key, default) on the flattened mapping
ConfigGet(cfg, key, default) ==
    IF key \in DOMAIN cfg THEN cfg[key] ELSE default

\* the values a configuration file gives to the keys it holds
FileValue(k) ==
    CASE k = "markup_rate"         -> Rat(3, 10)
      [] k = "fixed_profit"        -> RInt(0)
      [] k = "fixed_rate"          -> RInt(140)
      [] k = "enable_price_filter" -> TRUE
      [] k = "min_price"           -> RInt(100)
      [] k = "max_price"           -> RInt(1000)

FileWithKeys(keys) ==
    [kind |-> "mapping", content |-> [k \in keys |-> FileValue(k)]]

AbsentFile == [kind |-> "absent", content |-> <<>>]
UnparseableFile == [kind |-> "unparseable", content |-> <<>>]

ConfigFiles ==
    {AbsentFile, UnparseableFile} \cup {FileWithKeys(keys) : keys \in SUBSET ConfigKeys}

-----------------------------------------------------------------------------
(* calculate_minimum_ebay_price and extract_highest_price_product *)

KeyError == [exc |-> "KeyError"]

\* calculate_minimum_ebay_price(mercari, cfg)
CalculateMinimumEbayPrice(mercari, cfg) ==
    IF ~({"markup_rate", "fixed_profit"} \subseteq DOMAIN cfg) THEN KeyError
    ELSE RAdd(RMul(mercari, RAdd(RInt(1), cfg["markup_rate"])),
              cfg["fixed_profit"])

\* re.search(r'\$[\d,]+\.?\d*', s) from index i on: the matched text or NoneVal
RECURSIVE DollarSearch(_, _)
DollarSearch(s, i) ==
    IF i >= Len(s) THEN NoneVal
    ELSE IF s[i] = "$" /\ s[i + 1] \in Digits \cup {","}
         THEN LET n1   == RunLen(s, i + 1, Digits \cup {","})
                  p    == i + 1 + n1
                  ndot == IF p <= Len(s) /\ s[p] = "." THEN 1 ELSE 0
                  n2   == RunLen(s, p + ndot, Digits)
              IN  SubSeq(s, i, p + ndot + n2 - 1)
         ELSE DollarSearch(s, i + 1)

\* the first price cell of a row, in selector order, that holds a dollar amount
RECURSIVE FirstPriceMatch(_)
FirstPriceMatch(cells) ==
    IF cells = <<>> THEN NoneVal
    ELSE LET m == DollarSearch(Head(cells), 1)
         IN  IF m # NoneVal THEN m ELSE FirstPriceMatch(Tail(cells))

NoneProduct == [none |-> TRUE]

\* the variant of the filter switch that reads a key the file never holds
FilterEnabledNever(cfg) == ConfigGet(cfg, "enable_filter", FALSE)

\* the filter settings extract_highest_price_product reads from the config
FilterEnabled(cfg) == ConfigGet(cfg, "enable_price_filter", FALSE)
MinFilterPrice(cfg) == ConfigGet(cfg, "min_price", RInt(0))
MaxFilterPrice(cfg) == ConfigGet(cfg, "max_price", RInt(999999))

OutsideFilter(usd, cfg) ==
    RLt(usd, MinFilterPrice(cfg)) \/ RGt(usd, MaxFilterPrice(cfg))

\* the variant of the profit test that every price passes
ProfitTestAlways(price_numeric, minimum_ebay_price) == TRUE

\* the variant of the profit test that takes only a strictly higher price
ProfitTestStrict(price_numeric, minimum_ebay_price) ==
    RGt(price_numeric, minimum_ebay_price)

\* the profit test of a candidate: price_numeric >= minimum_ebay_price
ProfitTest(price_numeric, minimum_ebay_price) ==
    RGe(price_numeric, minimum_ebay_price)

\* the variant of the filter check in the row loop that skips no row
SkippedByFilterNever(usd, cfg) == FALSE

\* the filter check inside the row loop: TRUE when the row is skipped
SkippedByFilter(usd, cfg) ==
    FilterEnabled(cfg) /\ OutsideFilter(usd, cfg)

\* the product dictionary built from one table row
BuildProduct(row, mercari, cfg, minimum_ebay_price) ==
    LET m     == FirstPriceMatch(row.price_cells)
        found == m # NoneVal
        usd   == IF found THEN ParsePrice(m) ELSE RZero
        jpy   == IF found THEN RMul(usd, cfg["fixed_rate"]) ELSE RZero
        prof  == /\ found
                 /\ RGt(usd, RZero)
                 /\ ~SkippedByFilter(usd, cfg)
                 /\ ProfitTest(jpy, minimum_ebay_price)
    IN  [item_name     |-> row.item_name,
         item_url      |-> row.item_url,
         price         |-> IF found THEN m ELSE <<>>,
         price_numeric |-> jpy,
         usd_price     |-> usd,
         is_profitable |-> prof]

\* any([item_name, item_url, price])
AnyField(product) ==
    product.item_name # "" \/ product.item_url # "" \/ product.price # <<>>

\* profitable_products after the row loop
RECURSIVE ProfitableProducts(_, _, _, _)
ProfitableProducts(rows, mercari, cfg, minimum_ebay_price) ==
    IF rows = <<>> THEN <<>>
    ELSE LET product == BuildProduct(Head(rows), mercari, cfg, minimum_ebay_price)
             rest    == ProfitableProducts(Tail(rows), mercari, cfg, minimum_ebay_price)
         IN  IF product.is_profitable /\ AnyField(product)
             THEN <<product>> \o rest
             ELSE rest

\* the variant of max that keeps the last of several equal maxima
RECURSIVE MaxByUsdLast(_)
MaxByUsdLast(products) ==
    IF Len(products) = 1 THEN products[1]
    ELSE LET best == MaxByUsdLast(Tail(products))
         IN  IF RGt(Head(products).usd_price, best.usd_price) THEN Head(products) ELSE best

\* max(products, key=lambda x: x['usd_price']) of a non-empty list: the first
\* element that no other element exceeds
RECURSIVE MaxByUsd(_)
MaxByUsd(products) ==
    IF Len(products) = 1 THEN products[1]
    ELSE LET best == MaxByUsd(Tail(products))
         IN  IF RGe(Head(products).usd_price, best.usd_price) THEN Head(products) ELSE best

\* the list the row loop leaves behind (empty when the call fails before the loop)
ProfitableProductsOf(rows, mercari, cfg) ==
    LET minimum_ebay_price == CalculateMinimumEbayPrice(mercari, cfg)
    IN  IF minimum_ebay_price = KeyError \/ "fixed_rate" \notin DOMAIN cfg
        THEN <<>>
        ELSE ProfitableProducts(rows, mercari, cfg, minimum_ebay_price)

InsideFilter(product, cfg) ==
    /\ RLe(MinFilterPrice(cfg), product.usd_price)
    /\ RLe(product.usd_price, MaxFilterPrice(cfg))

\* the selection after the row loop: the filter once more, the highest
\* price, the final check of it
SelectHighest(profitable, cfg) ==
    IF profitable = <<>> THEN NoneProduct
    ELSE IF FilterEnabled(cfg)
    THEN LET filtered_products ==
                 SelectSeq(profitable, LAMBDA p : InsideFilter(p, cfg))
         IN  IF filtered_products = <<>> THEN NoneProduct
             ELSE LET highest == MaxByUsd(filtered_products)
                  IN  IF OutsideFilter(highest.usd_price, cfg)
                      THEN NoneProduct
                      ELSE highest
    ELSE MaxByUsd(profitable)

\* extract_highest_price_product, given the rows of the result table
ExtractHighestPriceProduct(rows, mercari, cfg) ==
    LET minimum_ebay_price == CalculateMinimumEbayPrice(mercari, cfg)
    IN  IF minimum_ebay_price = KeyError \/ "fixed_rate" \notin DOMAIN cfg
        THEN NoneProduct
        ELSE SelectHighest(ProfitableProducts(rows, mercari, cfg, minimum_ebay_price), cfg)

-----------------------------------------------------------------------------
(* Regular expressions of extract_model_numbers, matched with re.IGNORECASE *)

Upper == {"A", "B", "C", "D", "E", "F", "G", "H", "I", "J", "K", "L", "M",
          "N", "O", "P", "Q", "R", "S", "T", "U", "V", "W", "X", "Y", "Z"}
Lower == {"a", "b", "c", "d", "e", "f", "g", "h", "i", "j", "k", "l", "m",
          "n", "o", "p", "q", "r", "s", "t", "u", "v", "w", "x", "y", "z"}
Letters == Upper \cup Lower

LowerCase == <<"a", "b", "c", "d", "e", "f", "g", "h", "i", "j", "k", "l", "m",
               "n", "o", "p", "q", "r", "s", "t", "u", "v", "w", "x", "y", "z">>
UpperCase == <<"A", "B", "C", "D", "E", "F", "G", "H", "I", "J", "K", "L", "M",
               "N", "O", "P", "Q", "R", "S", "T", "U", "V", "W", "X", "Y", "Z">>

\* str.upper() of one character, of a text
UpperOf(c) ==
    IF c \in Lower THEN UpperCase[CHOOSE i \in 1..26 : LowerCase[i] = c] ELSE c
ToUpper(s) == [i \in 1..Len(s) |-> UpperOf(s[i])]

\* the kana and kanji of the model's texts: letters to Python's \w
Kana == {"k_no", "k_sa", "k_mu", "k_ne", "k_i", "k_ru", "k_o", "k_me", "k_ga",
         "k_de", "k_bi", "k_kei",
         "k_ki", "k_xya", "k_ri", "k_ba", "k_long", "k_shi", "k_ma", "k_su", "k_ta",
         "k_re", "k_xi", "k_te", "k_xtsu", "k_ku", "k_ka", "k_bu", "k_gu", "k_ra",
         "k_n", "k_do", "k_se", "k_ko"}

\* \w and \s of a str pattern; "nl" is the line feed
WordChars == Letters \cup Digits \cup {"_"} \cup Kana
SpaceChars == {" ", "nl"}

\* pattern items: a word boundary, a repeated character class, a lookahead
\* (?=.*(?:alt|alt|...)); max = -1 stands for no upper limit
Boundary == [k |-> "b"]
Rep(cls, lo, hi) == [k |-> "rep", cls |-> cls, min |-> lo, max |-> hi]
Lit(upper, lower) == Rep({upper, lower}, 1, 1)
Sym(c) == Rep({c}, 1, 1)
LookAheadAny(alts) == [k |-> "look", alts |-> alts]

NoMatch == [ok |-> FALSE, ends |-> <<>>]

IsWordAt(s, i) == i >= 1 /\ i <= Len(s) /\ s[i] \in WordChars

\* \b at position pos: between s[pos - 1] and s[pos]
AtBoundary(s, pos) == IsWordAt(s, pos - 1) # IsWordAt(s, pos)

Min2(a, b) == IF a < b THEN a ELSE b

\* The leftmost-greedy backtracking match of items[k..] at position pos: the
\* position reached after each item, or NoMatch.
RECURSIVE MatchFrom(_, _, _, _), TryCount(_, _, _, _, _), LookAhead(_, _, _)
MatchFrom(items, k, s, pos) ==
    IF k > Len(items) THEN [ok |-> TRUE, ends |-> <<>>]
    ELSE LET it == items[k]
         IN  IF it.k = "b"
             THEN IF AtBoundary(s, pos)
                  THEN LET r == MatchFrom(items, k + 1, s, pos)
                       IN  IF r.ok THEN [ok |-> TRUE, ends |-> <<pos>> \o r.ends] ELSE NoMatch
                  ELSE NoMatch
             ELSE IF it.k = "look"
             THEN IF LookAhead(it.alts, s, pos)
                  THEN LET r == MatchFrom(items, k + 1, s, pos)
                       IN  IF r.ok THEN [ok |-> TRUE, ends |-> <<pos>> \o r.ends] ELSE NoMatch
                  ELSE NoMatch
             ELSE LET run == RunLen(s, pos, it.cls)
                      top == IF it.max = -1 THEN run ELSE Min2(run, it.max)
                  IN  TryCount(items, k, s, pos, top)

\* the repetition items[k] taken c times, then fewer, down to its minimum
TryCount(items, k, s, pos, c) ==
    IF c < items[k].min THEN NoMatch
    ELSE LET r == MatchFrom(items, k + 1, s, pos + c)
         IN  IF r.ok THEN [ok |-> TRUE, ends |-> <<pos + c>> \o r.ends]
             ELSE TryCount(items, k, s, pos, c - 1)

\* (?=.*(?:alts)) at pos: an alternative matches at some j >= pos of the same line
LookAhead(alts, s, pos) ==
    \E j \in pos..(Len(s) + 1) :
        /\ \A i \in pos..(j - 1) : s[i] # "nl"
        /\ \E a \in alts : MatchFrom(a, 1, s, j).ok

\* re.findall(pattern, s, re.IGNORECASE) from position pos on: the matches in
\* order, each the text of group 1 when the pattern has a group, else the
\* whole match
RECURSIVE FindAll(_, _, _)
FindAll(pattern, s, pos) ==
    IF pos > Len(s) THEN <<>>
    ELSE LET r == MatchFrom(pattern.items, 1, s, pos)
         IN  IF ~r.ok THEN FindAll(pattern, s, pos + 1)
             ELSE LET n     == Len(pattern.items)
                      last  == r.ends[n]
                      text  == IF pattern.group = 0
                               THEN SubSeq(s, pos, last - 1)
                               ELSE SubSeq(s, r.ends[pattern.group - 1], r.ends[pattern.group] - 1)
                      next  == IF last > pos THEN last ELSE pos + 1
                  IN  <<text>> \o FindAll(pattern, s, next)

-----------------------------------------------------------------------------
(* extract_model_numbers *)

D(lo, hi) == Rep(Digits, lo, hi)
L(lo, hi) == Rep(Letters, lo, hi)
Dot == Sym(".")

Pat(items) == [items |-> items, group |-> 0, cal |-> FALSE]

\* the keywords of the lookahead of the De Ville pattern
OmegaKeywords ==
    { <<Lit("O", "o"), Lit("M", "m"), Lit("E", "e"), Lit("G", "g"), Lit("A", "a")>>,
      <<Sym("k_o"), Sym("k_me"), Sym("k_ga")>>,
      <<Lit("D", "d"), Lit("E", "e"), Rep(SpaceChars, 0, -1), Lit("V", "v"), Lit("I", "i"), Lit("L", "l"), Lit("L", "l"), Lit("E", "e")>>,
      <<Sym("k_de"), Sym("k_bi"), Sym("k_ru")>> }

\* the pattern list, in list order
Patterns ==
    << Pat(<<Boundary, D(3, 3), Dot, D(2, 2), Dot, D(2, 2), Dot, D(2, 2), Dot, D(2, 2),
             Dot, D(3, 3), Boundary>>),
       Pat(<<Boundary, D(4, 4), Dot, D(2, 2), Dot, D(2, 2), Boundary>>),
       Pat(<<Boundary, D(3, 4), Dot, D(2, 2), Boundary>>),
       Pat(<<Boundary, D(3, 3), Dot, D(3, 3), Boundary>>),
       [items |-> <<Lit("C", "c"), Lit("A", "a"), Lit("L", "l"), Rep({"."}, 0, 1), Rep(SpaceChars, 0, -1),
                    D(3, 4), Boundary>>,
        group |-> 6, cal |-> TRUE],
       Pat(<<Boundary, Lit("S", "s"), Lit("O", "o"), Sym("3"), Sym("3"), Lit("M", "m"), D(3, 3), Boundary>>),
       Pat(<<Boundary, L(2, 4), D(3, 4), L(0, 1), Boundary>>),
       Pat(<<Boundary, D(4, 4), Sym("-"), D(4, 4), Boundary>>),
       Pat(<<Boundary, L(1, 2), D(3, 6), L(0, 1), Boundary>>),
       Pat(<<Boundary, D(3, 6), L(2, 4), Boundary>>),
       Pat(<<Boundary, D(4, 4), Boundary, LookAheadAny(OmegaKeywords)>>),
       Pat(<<Boundary, Sym("0"), Sym("3"), Sym("-"), D(8, 8), Boundary>>) >>

ThumbnailSuffix == <<"k_sa", "k_mu", "k_ne", "k_i", "k_ru">>
NoThumbnailSuffix == <<"k_no">> \o ThumbnailSuffix

EndsWith(s, suffix) ==
    Len(s) >= Len(suffix) /\ SubSeq(s, Len(s) - Len(suffix) + 1, Len(s)) = suffix

\* re.sub(suffix + '$', '', s): $ matches at the end and before a final line feed
StripSuffix(s, suffix) ==
    IF EndsWith(s, suffix) THEN SubSeq(s, 1, Len(s) - Len(suffix))
    ELSE IF EndsWith(s, suffix \o <<"nl">>)
    THEN SubSeq(s, 1, Len(s) - Len(suffix) - 1) \o <<"nl">>
    ELSE s

\* the variant of lines 123-124 with the two substitutions in the other order
StripThumbnailShortFirst(s) == StripSuffix(StripSuffix(s, ThumbnailSuffix), NoThumbnailSuffix)

\* lines 123-124: the two substitutions, one after the other
StripThumbnail(s) == StripSuffix(StripSuffix(s, NoThumbnailSuffix), ThumbnailSuffix)

\* f"Cal.{match}" for each match of the caliber pattern
RECURSIVE CalPrefixed(_)
CalPrefixed(matches) ==
    IF matches = <<>> THEN <<>>
    ELSE <<<<"C", "a", "l", ".">> \o Head(matches)>> \o CalPrefixed(Tail(matches))

\* found_models after the patterns k.. have been applied to s
RECURSIVE FoundFrom(_, _)
FoundFrom(k, s) ==
    IF k > Len(Patterns) THEN <<>>
    ELSE LET matches == FindAll(Patterns[k], s, 1)
         IN  (IF Patterns[k].cal THEN CalPrefixed(matches) ELSE matches)
                 \o FoundFrom(k + 1, s)

\* found_models: every match of every pattern, in pattern order
FoundModels(text) == FoundFrom(1, StripThumbnail(text))

Range(f) == {f[i] : i \in DOMAIN f}

TypeError == "TypeError"

\* the variant of extract_model_numbers without the test for empty text:
\* re.sub raises TypeError for None
ExtractModelNumbersNoGuard(text) ==
    IF text = NoneVal THEN [raised |-> TypeError, models |-> {}]
    ELSE [raised |-> "", models |-> Range(FoundModels(text))]

\* extract_model_numbers(text): whether it raised, and the set the returned
\* list is made from (list(set(found_models)): its order is not fixed)
ExtractModelNumbers(text) ==
    IF text = NoneVal \/ text = <<>> THEN [raised |-> "", models |-> {}]
    ELSE [raised |-> "", models |-> Range(FoundModels(text))]

-----------------------------------------------------------------------------
(* WatchModelExtractor of extract_watch_model_numbers_universal.py: the      *)
(* pattern registry, detect_brand and extract_model_numbers                  *)

\* literal text of a pattern: each letter in either case (re.IGNORECASE)
Word(text) ==
    [i \in 1..Len(text) |->
        Rep({text[i]} \cup {c \in Letters : UpperOf(c) = UpperOf(text[i])}, 1, 1)]

\* a rule of the registry: its label (the part of the label before the kana,
\* or its translation) and the alternatives of its pattern, in order
P(type, items) == [type |-> type, alts |-> <<[items |-> items, group |-> 0]>>]

\* self.brand_patterns: for each brand its rules in the order of the dictionary
brand_patterns ==
    [ BVLGARI |-> <<
          P("BB", <<Boundary>> \o Word(<<"B", "B">>) \o <<D(2, 2), L(1, 8), Boundary>>),
          P("ST", <<Boundary>> \o Word(<<"S", "T">>) \o <<D(2, 2), L(1, 8), Boundary>>),
          P("BZ", <<Boundary>> \o Word(<<"B", "Z">>) \o <<D(2, 2), L(1, 5), Boundary>>),
          P("DG", <<Boundary>> \o Word(<<"D", "G">>) \o <<D(2, 2), L(1, 5), Boundary>>),
          P("EG", <<Boundary>> \o Word(<<"E", "G">>) \o <<D(2, 2), L(1, 5), Boundary>>),
          P("AL", <<Boundary>> \o Word(<<"A", "L">>) \o <<D(2, 2), L(1, 5), Boundary>>),
          P("RT", <<Boundary>> \o Word(<<"R", "T">>) \o <<D(2, 2), L(1, 5), Boundary>>),
          P("AA", <<Boundary>> \o Word(<<"A", "A">>) \o <<D(2, 2), L(1, 5), Boundary>>),
          P("SQ", <<Boundary>> \o Word(<<"S", "Q">>) \o <<D(2, 2), L(1, 5), Boundary>>),
          P("SD", <<Boundary>> \o Word(<<"S", "D">>) \o <<D(2, 2), L(1, 5), Boundary>>) >>,
      GRAND_SEIKO |-> <<
          P("SBGX", <<Boundary>> \o Word(<<"S", "B", "G", "X">>) \o <<D(3, 3), Boundary>>),
          P("SBGA", <<Boundary>> \o Word(<<"S", "B", "G", "A">>) \o <<D(3, 3), Boundary>>),
          P("SBGR", <<Boundary>> \o Word(<<"S", "B", "G", "R">>) \o <<D(3, 3), Boundary>>),
          P("SBGT", <<Boundary>> \o Word(<<"S", "B", "G", "T">>) \o <<D(3, 3), Boundary>>),
          P("SBGN", <<Boundary>> \o Word(<<"S", "B", "G", "N">>) \o <<D(3, 3), Boundary>>),
          P("SBGC", <<Boundary>> \o Word(<<"S", "B", "G", "C">>) \o <<D(3, 3), Boundary>>),
          P("SBGW", <<Boundary>> \o Word(<<"S", "B", "G", "W">>) \o <<D(3, 3), Boundary>>),
          P("SBGJ", <<Boundary>> \o Word(<<"S", "B", "G", "J">>) \o <<D(3, 3), Boundary>>),
          P("SBGE", <<Boundary>> \o Word(<<"S", "B", "G", "E">>) \o <<D(3, 3), Boundary>>),
          P("SBGV", <<Boundary>> \o Word(<<"S", "B", "G", "V">>) \o <<D(3, 3), Boundary>>),
          P("SBGP", <<Boundary>> \o Word(<<"S", "B", "G", "P">>) \o <<D(3, 3), Boundary>>),
          P("SBGH", <<Boundary>> \o Word(<<"S", "B", "G", "H">>) \o <<D(3, 3), Boundary>>) >>,
      OMEGA |-> <<
          P("Seamaster long", <<Boundary, D(3, 3)>> \o Word(<<".">>) \o <<D(2, 2)>> \o Word(<<".">>)
              \o <<D(2, 2)>> \o Word(<<".">>) \o <<D(2, 2)>> \o Word(<<".">>) \o <<D(2, 2)>>
              \o Word(<<".">>) \o <<D(3, 3), Boundary>>),
          P("Constellation", <<Boundary, D(4, 4)>> \o Word(<<".">>) \o <<D(2, 2)>> \o Word(<<".">>)
              \o <<D(2, 2), Boundary>>),
          P("Speedmaster", <<Boundary, D(4, 4)>> \o Word(<<".">>) \o <<D(2, 2), Boundary>>),
          P("Seamaster", <<Boundary, D(4, 4)>> \o Word(<<".">>) \o <<D(2, 2), Boundary>>),
          P("Vintage", <<Boundary, D(3, 3)>> \o Word(<<".">>) \o <<D(3, 3), Boundary>>),
          P("De Ville", <<Boundary, D(4, 4), Boundary, LookAheadAny({Word(<<"D", "e">>)
              \o <<Rep(SpaceChars, 0, -1)>>
              \o Word(<<"V", "i", "l", "l", "e">>), Word(<<"k_de", "k_bi", "k_ru">>), Word(<<"O", "M", "E", "G", "A">>), Word(<<"k_o", "k_me", "k_ga">>)})>>),
          [type |-> "Caliber", alts |-> <<[items |-> Word(<<"C", "a", "l">>)
              \o <<Rep({"."}, 0, 1), Rep(SpaceChars, 0, -1), D(3, 4), Boundary>>, group |-> 6], [items |-> Word(<<"k_ki", "k_xya", "k_ri", "k_ba", "k_long">>)
              \o <<Rep(SpaceChars, 0, -1), D(3, 4), Boundary>>, group |-> 7]>>],
          P("Seamaster number", <<Boundary, D(3, 3), Boundary, LookAheadAny({Word(<<"k_shi", "k_long", "k_ma", "k_su", "k_ta", "k_long">>), Word(<<"S", "e", "a", "m", "a", "s", "t", "e", "r">>)})>>),
          P("Swatch", <<Boundary>> \o Word(<<"S", "O", "3", "3", "M">>) \o <<D(3, 3), Boundary>>),
          P("Ladymatic", <<Boundary, D(3, 3)>> \o Word(<<".">>)
              \o <<D(3, 3), Boundary, LookAheadAny({Word(<<"k_re", "k_de", "k_xi", "k_ma", "k_te", "k_xi", "k_xtsu", "k_ku">>), Word(<<"L", "a", "d", "y">>)
              \o <<Rep(SpaceChars, 0, -1)>> \o Word(<<"M", "a", "t", "i", "c">>)})>>),
          P("Modern", <<Boundary, D(3, 4)>> \o Word(<<".">>)
              \o <<D(2, 3), Boundary, LookAheadAny({Word(<<"O", "M", "E", "G", "A">>), Word(<<"k_o", "k_me", "k_ga">>)})>>) >>,
      CASIO |-> <<
          P("DW", <<Boundary>> \o Word(<<"D", "W", "-">>)
              \o <<D(4, 4), L(0, -1), Rep({"-"}, 0, 1), D(0, -1), L(0, -1), Boundary>>),
          P("GA", <<Boundary>> \o Word(<<"G", "A", "-">>)
              \o <<D(3, 4), L(0, -1), Rep({"-"}, 0, 1), D(0, -1), L(0, -1), Boundary>>),
          P("GW", <<Boundary>> \o Word(<<"G", "W", "-">>)
              \o <<L(0, 1), D(4, 4), L(0, -1), Rep({"-"}, 0, 1), D(0, -1), L(0, -1), Boundary>>),
          P("GM", <<Boundary>> \o Word(<<"G", "M">>) \o <<L(0, 1)>> \o Word(<<"-">>)
              \o <<L(0, 1), D(3, 4), L(0, -1), Rep({"-"}, 0, 1), D(0, -1), L(0, -1), Boundary>>),
          P("GBD", <<Boundary>> \o Word(<<"G", "B", "D", "-">>)
              \o <<D(3, 4), L(0, -1), Rep({"-"}, 0, 1), D(0, -1), L(0, -1), Boundary>>),
          P("GAX", <<Boundary>> \o Word(<<"G", "A", "X", "-">>)
              \o <<D(3, 3), L(0, -1), Rep({"-"}, 0, 1), D(0, -1), L(0, -1), Boundary>>),
          P("GMA", <<Boundary>> \o Word(<<"G", "M", "A", "-">>)
              \o <<L(0, 1), D(3, 4), L(0, -1), Rep({"-"}, 0, 1), D(0, -1), L(0, -1), Boundary>>),
          P("GST", <<Boundary>> \o Word(<<"G", "S", "T", "-">>)
              \o <<L(0, 1), D(3, 4), L(0, -1), Rep({"-"}, 0, 1), D(0, -1), L(0, -1), Boundary>>),
          P("GS", <<Boundary>> \o Word(<<"G", "S", "-">>) \o <<D(3, 4), L(0, -1), Boundary>>),
          P("GT", <<Boundary>> \o Word(<<"G", "T", "-">>)
              \o <<D(3, 3), L(0, -1), Rep({"-"}, 0, 1), D(0, -1), L(0, -1), Boundary>>),
          P("GD", <<Boundary>> \o Word(<<"G", "D", "-">>)
              \o <<D(3, 3), L(0, -1), Rep({"-"}, 0, 1), D(0, -1), L(0, -1), Boundary>>),
          P("GL", <<Boundary>> \o Word(<<"G", "L", "-">>)
              \o <<D(3, 3), L(0, -1), Rep({"-"}, 0, 1), D(0, -1), L(0, -1), Boundary>>),
          P("G-", <<Boundary>> \o Word(<<"G", "-">>)
              \o <<D(4, 4), L(0, -1), Rep({"-"}, 0, 1), D(0, -1), L(0, -1), Boundary>>),
          P("GBA", <<Boundary>> \o Word(<<"G", "B", "A", "-">>)
              \o <<D(3, 3), L(0, -1), Rep({"-"}, 0, 1), D(0, -1), L(0, -1), Boundary>>),
          P("GWR", <<Boundary>> \o Word(<<"G", "W", "R", "-">>)
              \o <<L(0, 1), D(4, 4), L(0, -1), Rep({"-"}, 0, 1), D(0, -1), L(0, -1), Boundary>>),
          P("BA", <<Boundary>> \o Word(<<"B", "A", "-">>)
              \o <<D(3, 3), L(0, -1), Rep({"-"}, 0, 1), D(0, -1), L(0, -1), Boundary>>),
          P("BGA", <<Boundary>> \o Word(<<"B", "G", "A", "-">>)
              \o <<D(3, 4), L(0, -1), Rep({"-"}, 0, 1), D(0, -1), L(0, -1), Boundary>>),
          P("BGD", <<Boundary>> \o Word(<<"B", "G", "D", "-">>)
              \o <<D(3, 3), L(0, -1), Rep({"-"}, 0, 1), D(0, -1), L(0, -1), Boundary>>),
          P("BGT", <<Boundary>> \o Word(<<"B", "G", "T", "-">>)
              \o <<D(4, 4), L(0, -1), Rep({"-"}, 0, 1), D(0, -1), L(0, -1), Boundary>>),
          P("MSG", <<Boundary>> \o Word(<<"M", "S", "G", "-">>)
              \o <<D(3, 4), L(0, -1), Rep({"-"}, 0, 1), D(0, -1), L(0, -1), Boundary>>),
          P("A", <<Boundary>> \o Word(<<"A">>)
              \o <<D(3, 3), L(2, 4), Rep({"-"}, 0, 1), D(0, -1), L(0, -1), Boundary>>),
          P("F", <<Boundary>> \o Word(<<"F", "-">>)
              \o <<D(2, 3), L(2, 4), Rep({"-"}, 0, 1), D(0, -1), L(0, -1), Boundary>>),
          P("W", <<Boundary>> \o Word(<<"W", "-">>)
              \o <<D(3, 4), L(0, -1), Rep({"-"}, 0, 1), D(0, -1), L(0, -1), Boundary>>),
          P("MQ", <<Boundary>> \o Word(<<"M", "Q", "-">>)
              \o <<D(2, 3), L(0, -1), Rep({"-"}, 0, 1), D(0, -1), L(0, -1), Boundary>>),
          P("MW", <<Boundary>> \o Word(<<"M", "W", "-">>)
              \o <<D(3, 3), L(0, -1), Rep({"-"}, 0, 1), D(0, -1), L(0, -1), Boundary>>),
          P("MTP", <<Boundary>> \o Word(<<"M", "T", "P", "-">>)
              \o <<L(0, 1), D(3, 4), L(0, -1), Rep({"-"}, 0, 1), D(0, -1), L(0, -1), Boundary>>),
          P("MRW", <<Boundary>> \o Word(<<"M", "R", "W", "-">>)
              \o <<D(3, 3), L(0, -1), Rep({"-"}, 0, 1), D(0, -1), L(0, -1), Boundary>>),
          P("EQB", <<Boundary>> \o Word(<<"E", "Q", "B", "-">>)
              \o <<D(3, 3), L(0, -1), Rep({"-"}, 0, 1), D(0, -1), L(0, -1), Boundary>>),
          P("EQW", <<Boundary>> \o Word(<<"E", "Q", "W", "-">>)
              \o <<L(0, 1), D(3, 4), L(0, -1), Rep({"-"}, 0, 1), D(0, -1), L(0, -1), Boundary>>),
          P("ECB", <<Boundary>> \o Word(<<"E", "C", "B", "-">>)
              \o <<D(2, 3), L(0, -1), Rep({"-"}, 0, 1), D(0, -1), L(0, -1), Boundary>>),
          P("LIW", <<Boundary>> \o Word(<<"L", "I", "W", "-">>)
              \o <<L(0, 1), D(3, 4), L(0, -1), Rep({"-"}, 0, 1), D(0, -1), L(0, -1), Boundary>>),
          P("LWQ", <<Boundary>> \o Word(<<"L", "W", "Q", "-">>)
              \o <<D(2, 3), L(0, -1), Rep({"-"}, 0, 1), D(0, -1), L(0, -1), Boundary>>),
          P("LWA", <<Boundary>> \o Word(<<"L", "W", "A", "-">>)
              \o <<L(0, 1), D(3, 4), L(0, -1), Rep({"-"}, 0, 1), D(0, -1), L(0, -1), Boundary>>),
          P("WVA", <<Boundary>> \o Word(<<"W", "V", "A", "-">>)
              \o <<L(0, 1), D(3, 4), L(0, -1), Rep({"-"}, 0, 1), D(0, -1), L(0, -1), Boundary>>),
          P("WV", <<Boundary>> \o Word(<<"W", "V">>)
              \o <<Rep({"-"}, 0, 1), D(2, 3), L(0, -1), Rep({"-"}, 0, 1), D(0, -1), L(0, -1), Boundary>>),
          P("PRL", <<Boundary>> \o Word(<<"P", "R", "L", "-">>)
              \o <<D(2, 2), L(2, 4), Rep({"-"}, 0, 1), D(0, -1), L(0, -1), Boundary>>),
          P("IRW", <<Boundary>> \o Word(<<"I", "R", "W", "-">>)
              \o <<L(0, 1), D(3, 4), L(0, -1), Rep({"-"}, 0, 1), D(0, -1), L(0, -1), Boundary>>),
          P("CA", <<Boundary>> \o Word(<<"C", "A", "-">>)
              \o <<D(3, 3), L(2, 4), Rep({"-"}, 0, 1), D(0, -1), L(0, -1), Boundary>>),
          P("NF", <<Boundary>> \o Word(<<"N", "F", "-">>) \o <<D(2, 2), L(0, -1), Boundary>>),
          P("H", <<Boundary>> \o Word(<<"H">>) \o <<D(3, 3), Boundary>>),
          P("HDA", <<Boundary>> \o Word(<<"H", "D", "A", "-">>) \o <<D(3, 3), L(0, -1), Boundary>>),
          P("S", <<Boundary>> \o Word(<<"S">>) \o <<D(3, 3), Boundary>>),
          P("AW", <<Boundary>> \o Word(<<"A", "W", "-">>)
              \o <<D(2, 4), L(0, -1), Rep({"-"}, 0, 1), D(0, -1), L(0, -1), Boundary>>),
          P("AL-", <<Boundary>> \o Word(<<"A", "L", "-">>) \o <<D(3, 3), L(0, -1), Boundary>>),
          P("FS", <<Boundary>> \o Word(<<"F", "S", "-">>) \o <<D(2, 2), L(0, -1), Boundary>>),
          P("BAX", <<Boundary>> \o Word(<<"B", "A", "X", "-">>)
              \o <<D(3, 3), L(0, -1), Rep({"-"}, 0, 1), D(0, -1), L(0, -1), Boundary>>),
          P("QS", <<Boundary, D(2, 2)>> \o Word(<<"Q", "S", "-">>)
              \o <<D(2, 2), L(0, -1), Boundary>>),
          P("AQ", <<Boundary>> \o Word(<<"A", "Q", "-">>)
              \o <<D(3, 3), L(0, -1), Rep({"-"}, 0, 1), D(0, -1), L(0, -1), Boundary>>),
          P("ABL", <<Boundary>> \o Word(<<"A", "B", "L", "-">>)
              \o <<D(3, 3), L(2, 4), Rep({"-"}, 0, 1), D(0, -1), L(0, -1), Boundary>>),
          P("CS", <<Boundary, D(2, 2)>> \o Word(<<"C", "S", "-">>)
              \o <<D(2, 2), L(0, -1), Boundary>>),
          P("LD", <<Boundary>> \o Word(<<"L", "D", "-">>) \o <<D(3, 3), L(0, -1), Boundary>>),
          P("MD", <<Boundary>> \o Word(<<"M", "D", "-">>) \o <<D(3, 3), L(0, -1), Boundary>>),
          P("MV", <<Boundary>> \o Word(<<"M", "V", "-">>) \o <<D(3, 3), L(0, -1), Boundary>>),
          P("SGW", <<Boundary>> \o Word(<<"S", "G", "W", "-">>) \o <<D(3, 3), L(0, -1), Boundary>>),
          P("USB", <<Boundary>> \o Word(<<"U", "S", "B", "-">>) \o <<D(2, 2), L(0, -1), Boundary>>),
          P("CRW", <<Boundary>> \o Word(<<"C", "R", "W", "-">>)
              \o <<D(3, 3), L(0, -1), Rep({"-"}, 0, 1), D(0, -1), L(0, -1), Boundary>>),
          P("B", <<Boundary>> \o Word(<<"B">>) \o <<D(3, 3), Boundary>>),
          P("GMN", <<Boundary>> \o Word(<<"G", "M", "N", "-">>) \o <<D(2, 3), L(0, -1), Boundary>>),
          P("module number", <<Boundary, D(4, 4), Boundary, LookAheadAny({Word(<<"C", "A", "S", "I", "O">>), Word(<<"k_ka", "k_shi", "k_o">>)})>>) >> ]

\* re.findall(pattern, title, re.IGNORECASE) from position pos on, for a
\* pattern of ordered alternatives: at each position the first alternative
\* that matches is taken
MatchedText(alt, s, pos, r) ==
    IF alt.group = 0 THEN SubSeq(s, pos, r.ends[Len(alt.items)] - 1)
    ELSE SubSeq(s, r.ends[alt.group - 1], r.ends[alt.group] - 1)

RECURSIVE FindAllOf(_, _, _)
FindAllOf(alts, s, pos) ==
    IF pos > Len(s) THEN <<>>
    ELSE LET hits == {k \in 1..Len(alts) : MatchFrom(alts[k].items, 1, s, pos).ok}
         IN  IF hits = {} THEN FindAllOf(alts, s, pos + 1)
             ELSE LET k    == CHOOSE h \in hits : \A j \in hits : h <= j
                      r    == MatchFrom(alts[k].items, 1, s, pos)
                      last == r.ends[Len(alts[k].items)]
                  IN  <<MatchedText(alts[k], s, pos, r)>>
                          \o FindAllOf(alts, s, IF last > pos THEN last ELSE pos + 1)

\* the keyword lists of detect_brand
Keywords ==
    [ BVLGARI |-> <<<<"B", "V", "L", "G", "A", "R", "I">>,
                        <<"k_bu", "k_ru", "k_ga", "k_ri">>,
                        <<"B", "U", "L", "G", "A", "R", "I">>>>,
      GRAND_SEIKO |-> <<<<"G", "R", "A", "N", "D", " ", "S", "E", "I", "K", "O">>,
                        <<"k_gu", "k_ra", "k_n", "k_do", "k_se", "k_i", "k_ko", "k_long">>,
                        <<"S", "B", "G", "X">>,
                        <<"S", "B", "G", "A">>,
                        <<"S", "B", "G", "R">>>>,
      CASIO |-> <<<<"C", "A", "S", "I", "O">>,
                        <<"k_ka", "k_shi", "k_o">>,
                        <<"G", "-", "S", "H", "O", "C", "K">>,
                        <<"B", "A", "B", "Y", "-", "G">>,
                        <<"E", "D", "I", "F", "I", "C", "E">>>>,
      OMEGA |-> <<<<"O", "M", "E", "G", "A">>,
                        <<"k_o", "k_me", "k_ga">>,
                        <<"S", "E", "A", "M", "A", "S", "T", "E", "R">>,
                        <<"S", "P", "E", "E", "D", "M", "A", "S", "T", "E", "R">>,
                        <<"C", "O", "N", "S", "T", "E", "L", "L", "A", "T", "I", "O", "N">>,
                        <<"D", "E", " ", "V", "I", "L", "L", "E">>>> ]

\* the keys of counts in the order of the dictionary, which is also the list
\* used for 'ALL'
AllBrands == <<"BVLGARI", "GRAND_SEIKO", "CASIO", "OMEGA">>

\* nrows of the read_csv call of detect_brand
SampleRows == 10

\* an input file: whether it exists, whether it has a title column, and the
\* title cells of its rows (the price and product_url columns are taken to
\* exist)
CsvFile(titles) == [exists |-> TRUE, title_column |-> TRUE, titles |-> titles]
MissingCsv == [exists |-> FALSE, title_column |-> FALSE, titles |-> <<>>]
CsvWithoutTitle(titles) == [exists |-> TRUE, title_column |-> FALSE, titles |-> titles]

\* a missing cell, and str() of a cell
NaN == <<"NaN">>

Str(value) ==
    IF value = NaN THEN <<"n", "a", "n">>
    ELSE IF value = NoneVal THEN <<"N", "o", "n", "e">>
    ELSE value

\* ' '.join(texts)
RECURSIVE Join(_)
Join(texts) ==
    IF texts = <<>> THEN <<>>
    ELSE IF Len(texts) = 1 THEN texts[1]
    ELSE texts[1] \o <<" ">> \o Join(Tail(texts))

\* keyword in text
Contains(text, keyword) ==
    \E i \in 1..(Len(text) - Len(keyword) + 1) :
        SubSeq(text, i, i + Len(keyword) - 1) = keyword

\* ' '.join(df['title'].astype(str).tolist()).upper() of the first rows
SampleText(titles) ==
    ToUpper(Join([i \in 1..Min2(Len(titles), SampleRows) |-> Str(titles[i])]))

\* sum(1 for keyword in keywords if keyword in sample_text)
KeywordCount(keywords, sample_text) ==
    Cardinality({k \in 1..Len(keywords) : Contains(sample_text, keywords[k])})

\* max(counts, key=counts.get): the first key with the largest count
MaxBrand(counts) ==
    AllBrands[CHOOSE i \in 1..Len(AllBrands) :
                 /\ \A j \in 1..Len(AllBrands) : counts[AllBrands[j]] <= counts[AllBrands[i]]
                 /\ \A j \in 1..(i - 1) : counts[AllBrands[j]] < counts[AllBrands[i]]]

BrandOfCounts(counts, max_brand) ==
    [raised |-> FALSE, counts |-> counts,
     brand |-> IF counts[max_brand] > 0 THEN max_brand ELSE "ALL"]

CountsOf(sample_text) ==
    [b \in {AllBrands[i] : i \in 1..Len(AllBrands)} |-> KeywordCount(Keywords[b], sample_text)]

\* detect_brand: the brand with the most keywords in the sample, 'ALL' when
\* no keyword is found or anything raises
DetectBrandOf(csv) ==
    IF ~csv.exists \/ ~csv.title_column THEN [raised |-> TRUE, brand |-> "ALL"]
    ELSE BrandOfCounts(CountsOf(SampleText(csv.titles)), MaxBrand(CountsOf(SampleText(csv.titles))))

\* the brands extracted when none is requested; the second takes one brand
\* where the first takes all
TargetBrandsFirstOnly(detected_brand) ==
    IF detected_brand = "ALL" THEN <<AllBrands[1]>> ELSE <<detected_brand>>

TargetBrands(detected_brand) ==
    IF detected_brand = "ALL" THEN AllBrands ELSE <<detected_brand>>

\* the entries one rule adds for one row; index stands for the row whose
\* price and url cells the entry holds
InfosOf(brand, type, title, index, matches) ==
    [i \in 1..Len(matches) |->
        [brand |-> brand, pattern_type |-> type, model_number |-> ToUpper(matches[i]),
         title |-> title, index |-> index]]

\* the entries of the rules k.. for one row, of the rows i.. for one brand
RECURSIVE RowModels(_, _, _, _, _), BrandModels(_, _, _)
RowModels(brand, rules, title, index, k) ==
    IF k > Len(rules) THEN <<>>
    ELSE InfosOf(brand, rules[k].type, title, index, FindAllOf(rules[k].alts, title, 1))
             \o RowModels(brand, rules, title, index, k + 1)

BrandModels(brand, titles, i) ==
    IF i > Len(titles) THEN <<>>
    ELSE RowModels(brand, brand_patterns[brand], Str(titles[i]), i - 1, 1)
             \o BrandModels(brand, titles, i + 1)

\* model_counts: the keys "<brand>_<model>" in the order of their first
\* entry, and the number of entries of a key
KeyOf(info) == [brand |-> info.brand, model_number |-> info.model_number]

RECURSIVE KeysOf(_)
KeysOf(models) ==
    IF models = <<>> THEN <<>>
    ELSE LET front == KeysOf(SubSeq(models, 1, Len(models) - 1))
             key   == KeyOf(models[Len(models)])
         IN  IF \E j \in 1..Len(front) : front[j] = key THEN front ELSE Append(front, key)

CountOf(models, key) == Cardinality({j \in 1..Len(models) : KeyOf(models[j]) = key})

\* Counter.most_common(): by count, largest first, equal counts in the order
\* of the keys
RECURSIVE MostCommon(_, _)
MostCommon(models, keys) ==
    IF keys = <<>> THEN <<>>
    ELSE LET i == CHOOSE i \in 1..Len(keys) :
                     /\ \A j \in 1..Len(keys) : CountOf(models, keys[j]) <= CountOf(models, keys[i])
                     /\ \A j \in 1..(i - 1) : CountOf(models, keys[j]) < CountOf(models, keys[i])
         IN  <<keys[i]>> \o MostCommon(models, SubSeq(keys, 1, i - 1) \o SubSeq(keys, i + 1, Len(keys)))

\* model_key.split('_', 1) cuts the key at its first underscore, which for
\* GRAND_SEIKO is inside the brand: no entry has the brand 'GRAND', and the
\* key gets no row in the list of unique models
SplitsAtBrand(key) == key.brand # "GRAND_SEIKO"

UniqueRow(models, key) ==
    LET j == CHOOSE j \in 1..Len(models) :
                /\ KeyOf(models[j]) = key
                /\ \A h \in 1..(j - 1) : KeyOf(models[h]) # key
    IN  [brand |-> key.brand, model_number |-> key.model_number,
         count |-> CountOf(models, key), pattern_type |-> models[j].pattern_type]

UniqueModels(models) ==
    LET keys == SelectSeq(MostCommon(models, KeysOf(models)), SplitsAtBrand)
    IN  [i \in 1..Len(keys) |-> UniqueRow(models, keys[i])]

-----------------------------------------------------------------------------
(* Writing the verdict of a row *)

\* Python round-half-even of a rational to an integer: what '.0f' prints
RoundHalfEven(r) ==
    LET q   == r.n \div r.d
        rem == r.n - q * r.d
    IN  IF 2 * rem < r.d THEN q
        ELSE IF 2 * rem > r.d THEN q + 1
        ELSE IF q % 2 = 0 THEN q ELSE q + 1

\* f"¥{x:,.0f}": the yen sign and the amount rounded to whole yen
FormatYen(x) == <<"yen", RoundHalfEven(x)>>

BlankCells ==
    [ebay_name |-> "", ebay_url |-> "", usd |-> <<>>, jpy |-> <<>>,
     profit |-> <<>>, verdict |-> ""]

\* the variant of the verdict cells whose profit is taken over the required minimum
VerdictCellsOverMinimum(product, mercari) ==
    [ebay_name |-> product.item_name,
     ebay_url  |-> product.item_url,
     usd       |-> product.price,
     jpy       |-> FormatYen(product.price_numeric),
     profit    |-> FormatYen(RSub(product.price_numeric, RMul(mercari, Rat(12, 10)))),
     verdict   |-> "OK"]

\* the six cells both orchestrators derive from the selected product
VerdictCells(product, mercari) ==
    LET profit_amount == RSub(product.price_numeric, mercari)
    IN  [ebay_name |-> product.item_name,
         ebay_url  |-> product.item_url,
         usd       |-> product.price,
         jpy       |-> FormatYen(product.price_numeric),
         profit    |-> FormatYen(profit_amount),
         verdict   |-> "OK"]

-----------------------------------------------------------------------------
(* Inputs of a row *)

Txt50 == <<"$", "5", "0", ".", "0", "0">>
Txt100 == <<"$", "1", "0", "0", ".", "0", "0">>
Txt100c == <<"$", "1", "0", "0", ".", "0", "1">>
Txt500 == <<"$", "5", "0", "0", ".", "0", "0">>
Txt5000 == <<"$", "5", ",", "0", "0", "0", ".", "0", "0">>
TxtZero == <<"$", "0", ".", "0", "0">>
TxtNA == <<"N", "/", "A">>

TableRow(name, cells) == [item_name |-> name, item_url |-> "u", price_cells |-> cells]

\* the rows a result page is made of
TableRowChoices ==
    { TableRow("A", <<Txt50>>),
      TableRow("A", <<Txt100>>),
      TableRow("A", <<Txt100c>>),
      TableRow("A", <<Txt500>>),
      TableRow("B", <<TxtNA, Txt500>>),
      TableRow("A", <<Txt5000>>),
      TableRow("A", <<TxtZero>>),
      TableRow("A", <<TxtNA>>) }

RECURSIVE SeqsOfLen(_, _)
SeqsOfLen(S, k) ==
    IF k = 0 THEN {<<>>}
    ELSE {<<x>> \o t : x \in S, t \in SeqsOfLen(S, k - 1)}

\* the page of the documented filter example: prices 50, 500 and 5000
ExamplePage ==
    <<TableRow("A", <<Txt50>>), TableRow("A", <<Txt500>>), TableRow("A", <<Txt5000>>)>>

\* a page on which two rows share the highest price
TiePage ==
    <<TableRow("A", <<Txt100>>), TableRow("A", <<Txt500>>), TableRow("B", <<TxtNA, Txt500>>)>>

Pages ==
    UNION {SeqsOfLen(TableRowChoices, k) : k \in 0..MaxTableRows}
        \cup {ExamplePage, TiePage}

MercariPriceTexts ==
    { <<"1", "0", "0", "0", "0">>,
      <<"1", "0", "0", ",", "0", "0", "0">>,
      TxtNA }

\* the configurations the orchestrators run with
RowConfigFiles ==
    { AbsentFile,
      FileWithKeys(RequiredKeys),
      FileWithKeys(ConfigKeys) }

-----------------------------------------------------------------------------
(* Specification of a parse_price call *)

NotRun == [exc |-> "not run"]

\* no command line: the program is not main.py
NoArgs == [input_exists |-> FALSE, dry_run |-> FALSE, readable |-> FALSE, items |-> 0]

IdleConfig == /\ config_file = AbsentFile
              /\ config = NotRun
IdlePrice == /\ price_text = NoneVal
             /\ parsed = NotRun
IdleRow == /\ caller = "none"
           /\ mercari_price_text = NoneVal
           /\ mercari_price = NotRun
           /\ table_rows = <<>>
           /\ profitable_products = <<>>
           /\ highest_product = NotRun
           /\ worker_result = NotRun
           /\ result_row = BlankCells
IdleExtract == /\ cell = NoneVal
               /\ product_name = NoneVal
               /\ model_numbers = NotRun
               /\ model_number = NoneVal
               /\ first_run = NotRun
IdleRun == /\ program = "none"
           /\ df = <<>>
           /\ result_df = <<>>
           /\ next_index = 0
           /\ futures = <<>>
           /\ extraction_results = <<>>
           /\ search_results = <<>>
           /\ profit_items = <<>>
           /\ output = NotRun
           /\ waits = <<>>
           /\ searches = <<>>
           /\ browsers = {}
           /\ max_workers = 0
           /\ drivers = <<>>
           /\ prompts = 0
           /\ writes = <<>>
IdleBrand == /\ csv_file = MissingCsv
             /\ target_brands = NoneVal
             /\ detection = NotRun
             /\ brand_index = 0
             /\ extracted_models = <<>>
             /\ brand_summary = <<>>
             /\ saved_files = NotRun
IdleCli == /\ cli_args = NoArgs
           /\ calls = <<>>
           /\ cli_result = "none"
           /\ exit_code = -1
IdleTools == IdleBrand /\ IdleCli

InitPrice ==
    /\ pc = "parse_price"
    /\ price_text \in PriceTexts
    /\ parsed = NotRun
    /\ IdleConfig
    /\ IdleRow
    /\ IdleExtract
    /\ IdleRun
    /\ IdleTools

CallParsePrice ==
    /\ pc = "parse_price"
    /\ parsed' = ParsePrice(price_text)
    /\ pc' = "done"
    /\ UNCHANGED <<toolVars, price_text, configVars, rowVars, extractVars, runVars>>

NextPrice == CallParsePrice

SpecPrice == InitPrice /\ [][NextPrice]_vars

-----------------------------------------------------------------------------
(* Specification of a load_config call *)

InitConfig ==
    /\ pc = "load_config"
    /\ config_file \in ConfigFiles
    /\ config = NotRun
    /\ IdlePrice
    /\ IdleRow
    /\ IdleExtract
    /\ IdleRun
    /\ IdleTools

CallLoadConfig ==
    /\ pc = "load_config"
    /\ config' = LoadConfig(config_file)
    /\ pc' = "done"
    /\ UNCHANGED <<toolVars, config_file, priceVars, rowVars, extractVars, runVars>>

NextConfig == CallLoadConfig

SpecConfig == InitConfig /\ [][NextConfig]_vars

-----------------------------------------------------------------------------
(* Specification of one searched row: from the row's price to its verdict *)

InitRow ==
    /\ pc = "row"
    /\ caller \in {"sequential", "parallel"}
    /\ config_file \in RowConfigFiles
    /\ config = LoadConfig(config_file)
    /\ mercari_price_text \in MercariPriceTexts
    /\ mercari_price = NotRun
    /\ table_rows \in Pages
    /\ profitable_products = <<>>
    /\ highest_product = NotRun
    /\ worker_result = NotRun
    /\ result_row = BlankCells
    /\ IdlePrice
    /\ IdleExtract
    /\ IdleRun
    /\ IdleTools

\* parse_price of the row's price, the search, extract_highest_price_product
EvaluateRow ==
    /\ pc = "row"
    /\ mercari_price' = ParsePrice(mercari_price_text)
    /\ profitable_products' =
           ProfitableProductsOf(table_rows, ParsePrice(mercari_price_text), config)
    /\ highest_product' =
           ExtractHighestPriceProduct(table_rows, ParsePrice(mercari_price_text), config)
    /\ pc' = "evaluated"
    /\ UNCHANGED <<toolVars, priceVars, configVars, extractVars, runVars, caller, mercari_price_text, table_rows,
                   worker_result, result_row>>

\* process_csv_with_config_analysis: if highest_product: ... else: ...
WriteVerdict ==
    /\ pc = "evaluated"
    /\ caller = "sequential"
    /\ result_row' = IF highest_product # NoneProduct
                     THEN VerdictCells(highest_product, mercari_price)
                     ELSE result_row
    /\ pc' = "done"
    /\ UNCHANGED <<toolVars, priceVars, configVars, extractVars, runVars, caller, mercari_price_text, mercari_price,
                   table_rows, profitable_products, highest_product, worker_result>>

\* process_single_item: the result dictionary, or None
ReturnResult ==
    /\ pc = "evaluated"
    /\ caller = "parallel"
    /\ worker_result' = IF highest_product # NoneProduct
                        THEN VerdictCells(highest_product, mercari_price)
                        ELSE NoneProduct
    /\ pc' = "returned"
    /\ UNCHANGED <<toolVars, priceVars, configVars, extractVars, runVars, caller, mercari_price_text, mercari_price,
                   table_rows, profitable_products, highest_product, result_row>>

\* process_csv_parallel: if result: result_df.at[index, key] = value
CollectResult ==
    /\ pc = "returned"
    /\ result_row' = IF worker_result # NoneProduct THEN worker_result ELSE result_row
    /\ pc' = "done"
    /\ UNCHANGED <<toolVars, priceVars, configVars, extractVars, runVars, caller, mercari_price_text, mercari_price,
                   table_rows, profitable_products, highest_product, worker_result>>

NextRow == EvaluateRow \/ WriteVerdict \/ ReturnResult \/ CollectResult

SpecRow == InitRow /\ [][NextRow]_vars

-----------------------------------------------------------------------------
(* Specification of the extraction of a row's identifier *)

\* a missing cell of the input frame
TitleSBGX == <<"S", "B", "G", "X", "2", "6", "3">>
TitleThumbnail == TitleSBGX \o NoThumbnailSuffix
TitleRef == <<"5", "6", "4", "5", "-", "7", "0", "1", "0">>
TitleCal == <<"c", "a", "l", ".", "4", "8", "4">>
TitleTwo == <<"1", "5", "0", "4", ".", "3", "5", ".", "0", "0">>
TitleOmega == <<"1", "3", "7", "7", " ", "O", "M", "E", "G", "A">>
TitleMixedCase == <<"s", "b", "g", "x", "2", "6", "3", " ", "S", "B", "G", "X", "2", "6", "3">>
TitleWatch == <<"k_kei", " ", "A", "1", "2">>

TitleA123 == <<"A", "1", "2", "3">>
\* titles that end in two suffixes, and in a suffix followed by a line feed
TitleShortShort == TitleA123 \o ThumbnailSuffix \o ThumbnailSuffix
TitleShortLong == TitleA123 \o ThumbnailSuffix \o NoThumbnailSuffix
TitleLongShort == TitleA123 \o NoThumbnailSuffix \o ThumbnailSuffix
TitleLongLineFeed == TitleA123 \o NoThumbnailSuffix \o <<"nl">>
TitleSuffixInside == TitleA123 \o NoThumbnailSuffix \o <<" ", "A">>

TitleExamples ==
    { TitleSBGX, TitleThumbnail, TitleRef, TitleCal, TitleTwo, TitleOmega, TitleWatch,
      TitleMixedCase,
      NoThumbnailSuffix, ThumbnailSuffix, NoThumbnailSuffix \o <<"nl">>,
      TitleShortShort, TitleShortLong, TitleLongShort, TitleLongLineFeed,
      TitleSuffixInside }

TitleAlphabet == {"A", "1", ".", " ", "k_ru"}

TitleTexts ==
    UNION {SeqsOfLen(TitleAlphabet, k) : k \in 0..MaxTitleLen} \cup TitleExamples

InitExtract ==
    /\ pc = "title"
    /\ caller \in {"direct", "sequential", "parallel"}
    /\ cell \in TitleTexts \cup {NoneVal, NaN}
    /\ caller = "direct" => cell # NaN
    /\ product_name = NoneVal
    /\ model_numbers = NotRun
    /\ model_number = NoneVal
    /\ first_run = NotRun
    /\ mercari_price_text = NoneVal
    /\ mercari_price = NotRun
    /\ table_rows = <<>>
    /\ profitable_products = <<>>
    /\ highest_product = NotRun
    /\ worker_result = NotRun
    /\ result_row = BlankCells
    /\ IdlePrice
    /\ IdleConfig
    /\ IdleRun
    /\ IdleTools

\* a call of extract_model_numbers with the text itself
CallExtractModelNumbers ==
    /\ pc = "title"
    /\ caller = "direct"
    /\ product_name' = cell
    /\ model_numbers' = ExtractModelNumbers(cell)
    /\ pc' = "done"
    /\ UNCHANGED <<toolVars, priceVars, configVars, rowVars, runVars, cell, model_number, first_run>>

\* the orchestrators: product_name = str(row['title']), then the extraction
ExtractFromRow ==
    /\ pc = "title"
    /\ caller \in {"sequential", "parallel"}
    /\ product_name' = Str(cell)
    /\ model_numbers' = ExtractModelNumbers(Str(cell))
    /\ pc' = "extracted"
    /\ UNCHANGED <<toolVars, priceVars, configVars, rowVars, runVars, cell, model_number, first_run>>

\* if not model_numbers: continue (sequential), return None (parallel)
SkipRowWithoutModel ==
    /\ pc = "extracted"
    /\ model_numbers.raised = ""
    /\ model_numbers.models = {}
    /\ pc' = "next_row"
    /\ UNCHANGED <<toolVars, priceVars, configVars, rowVars, runVars, extractVars>>

\* model_number = model_numbers[0]: the list comes from a set, so any of its
\* members can be the first
UseFirstModel ==
    /\ pc = "extracted"
    /\ model_numbers.raised = ""
    /\ \E m \in model_numbers.models : model_number' = m
    /\ pc' = "search"
    /\ UNCHANGED <<toolVars, priceVars, configVars, rowVars, runVars, cell, product_name,
                   model_numbers, first_run>>

\* the program is run once more on the same input, in a new process: what the
\* first run got for the row is kept for comparison
RunAgain ==
    /\ pc \in {"search", "next_row"}
    /\ first_run = NotRun
    /\ first_run' = [model_numbers |-> model_numbers, model_number |-> model_number]
    /\ product_name' = NoneVal
    /\ model_numbers' = NotRun
    /\ model_number' = NoneVal
    /\ pc' = "title"
    /\ UNCHANGED <<toolVars, priceVars, configVars, rowVars, runVars, cell>>

NextExtract ==
    \/ CallExtractModelNumbers
    \/ ExtractFromRow
    \/ SkipRowWithoutModel
    \/ UseFirstModel
    \/ RunAgain

SpecExtract == InitExtract /\ [][NextExtract]_vars

-----------------------------------------------------------------------------
(* Specification of a whole run: every row of the input, then the save *)

InputRow(title, price) == [title |-> title, price |-> price]

\* the rows an input file is made of: a title with an identifier, a title
\* without one, a missing title
InputRowChoices ==
    { InputRow(TitleSBGX, <<"1", "0", "0", "0", "0">>),
      InputRow(TitleWatch, <<"1", "0", "0", "0", "0">>),
      InputRow(NaN, <<"1", "0", "0", "0", "0">>) }

InputFrames == UNION {SeqsOfLen(InputRowChoices, k) : k \in 0..MaxItems}

\* a table row with a sold price and neither the name span nor the link
NamelessRow == [item_name |-> "", item_url |-> "", price_cells |-> <<Txt500>>]

\* the result pages a search of the run can show
RunPages ==
    { <<>>, <<TableRow("A", <<Txt500>>)>>, <<TableRow("A", <<Txt50>>)>>, <<NamelessRow>> }

\* what the browser does for one row: whether the search succeeds, the page it
\* shows, whether a call raises
RowEnvs == [searched : BOOLEAN, page : RunPages, raises : BOOLEAN]

\* result_df = df.copy() with the six columns set to ''; labels are 0..n-1
CopyWithBlankColumns(frame) ==
    [i \in 0..(Len(frame) - 1) |->
        [title |-> frame[i + 1].title, price |-> frame[i + 1].price, cells |-> BlankCells]]

\* result_df.at[index, column] = value, for the six columns
At(frame, index, cells) ==
    [i \in DOMAIN frame \cup {index} |->
        IF i # index THEN frame[i]
        ELSE IF index \in DOMAIN frame
        THEN [title |-> frame[index].title, price |-> frame[index].price, cells |-> cells]
        ELSE [title |-> NaN, price |-> NaN, cells |-> cells]]

\* the variant of the no-model branch that deletes the row
DropRow(frame, index) == [i \in DOMAIN frame \ {index} |-> frame[i]]

\* continue: the row is left as it is
SkipRow(frame, index) == frame

RECURSIVE SortedLabels(_)
SortedLabels(S) ==
    IF S = {} THEN <<>>
    ELSE LET m == CHOOSE x \in S : \A y \in S : x <= y
         IN  <<m>> \o SortedLabels(S \ {m})

\* result_df.to_csv(..., index=False): the rows of the frame
ToCsv(frame) ==
    LET labels == SortedLabels(DOMAIN frame)
    IN  [k \in 1..Len(labels) |-> frame[labels[k]]]

\* if highest_product: the six result_df.at writes
WriteProduct(frame, index, product, mercari) ==
    IF product # NoneProduct
    THEN At(frame, index, VerdictCells(product, mercari))
    ELSE frame

\* one iteration of the sequential loop
SequentialRow(frame, index, row, cfg, env) ==
    LET found == ExtractModelNumbers(Str(row.title))
    IN  IF found.raised # "" THEN frame
        ELSE IF found.models = {} THEN SkipRow(frame, index)
        ELSE IF env.raises \/ ~env.searched THEN frame
        ELSE WriteProduct(frame, index,
                          ExtractHighestPriceProduct(env.page, ParsePrice(Str(row.price)), cfg),
                          ParsePrice(Str(row.price)))

\* if highest_product: the result dictionary, else None
ResultOf(index, product, mercari) ==
    IF product # NoneProduct
    THEN [index |-> index, cells |-> VerdictCells(product, mercari)]
    ELSE NoneProduct

\* process_single_item: the result dictionary, or None
ProcessSingleItem(index, row, cfg, env) ==
    LET found == ExtractModelNumbers(Str(row.title))
    IN  IF found.raised # "" \/ found.models = {} THEN NoneProduct
        ELSE IF env.raises \/ ~env.searched THEN NoneProduct
        ELSE ResultOf(index,
                      ExtractHighestPriceProduct(env.page, ParsePrice(Str(row.price)), cfg),
                      ParsePrice(Str(row.price)))

\* main.py: what the extractor and the scraper do for one item
MainOutcomes == {"no_model", "found", "extract_raises", "search_raises", "rate_limit"}

BestItems == {NoneProduct, [price_usd |-> 0], [price_usd |-> 500]}

\* the entries of the two lists; item is the position in original_data of the
\* item the entry was made from
ExtractionOf(item, model) ==
    [item |-> item, extracted_model |-> model, extraction_status |-> "done"]
ExtractionError(item) ==
    [item |-> item, extracted_model |-> "", extraction_status |-> "error"]
SearchOf(item, status, best) == [item |-> item, search_status |-> status, best_item |-> best]

\* extraction_results after the iteration for one item
ExtractionResultsAfter(results, item, outcome) ==
    IF outcome = "no_model" THEN Append(results, ExtractionOf(item, ""))
    ELSE IF outcome = "found" THEN Append(results, ExtractionOf(item, "M"))
    ELSE IF outcome = "extract_raises" THEN Append(results, ExtractionError(item))
    ELSE IF outcome = "search_raises"
    THEN Append(Append(results, ExtractionOf(item, "M")), ExtractionError(item))
    ELSE Append(results, ExtractionOf(item, "M"))

\* search_results after the iteration for one item
SearchResultsAfter(results, item, outcome, best) ==
    IF outcome = "no_model" THEN Append(results, SearchOf(item, "no_model", NoneProduct))
    ELSE IF outcome = "found" THEN Append(results, SearchOf(item, "done", best))
    ELSE IF outcome \in {"extract_raises", "search_raises"}
    THEN Append(results, SearchOf(item, "error", NoneProduct))
    ELSE results

\* except RateLimitException: time.sleep(e.wait_time), then continue
WaitsAfter(slept, item, outcome) ==
    IF outcome = "rate_limit" THEN Append(slept, item) ELSE slept

\* the calls of ebay_scraper.search_model: made when a model was extracted
MainSearchesAfter(log, item, outcome) ==
    IF outcome \in {"found", "search_raises", "rate_limit"}
    THEN Append(log, [item |-> item, query |-> <<"M">>])
    ELSE log

\* the variant of the orchestrators that searches the title itself when no
\* identifier was extracted
SearchesAfterAlways(log, index, row) ==
    LET found == ExtractModelNumbers(Str(row.title))
    IN  IF found.raised # "" \/ found.models = {}
        THEN {Append(log, [item |-> index, query |-> <<>>])}
        ELSE {Append(log, [item |-> index, query |-> m]) : m \in found.models}

\* the logs search_model_number can leave after one row of the sequential or
\* the parallel orchestrator: it is called with model_numbers[0] when the
\* list is not empty
SearchesAfter(log, index, row) ==
    LET found == ExtractModelNumbers(Str(row.title))
    IN  IF found.raised # "" \/ found.models = {} THEN {log}
        ELSE {Append(log, [item |-> index, query |-> m]) : m \in found.models}

\* process_single_item calls setup_driver after 'if not model_numbers: return None'
BrowsersAfter(opened, index, row) ==
    LET found == ExtractModelNumbers(Str(row.title))
    IN  IF found.raised # "" \/ found.models = {} THEN opened ELSE opened \cup {index}

\* step 4 of run: one entry per item of original_data
ProfitItems(original_data, results) ==
    [i \in 1..Len(original_data) |->
        LET best_item == IF i <= Len(results) THEN results[i].best_item ELSE NoneProduct
        IN  [index |-> i - 1,
             mercari_price |-> original_data[i].price,
             ebay_price_usd |-> IF best_item # NoneProduct /\ best_item.price_usd > 0
                                THEN best_item.price_usd ELSE 0]]

\* output_handler.generate_result_data: one result row per input row
GenerateResultData(original_data, extractions, search_list, profits) ==
    [i \in 1..Len(original_data) |->
        [title |-> original_data[i].title, price |-> original_data[i].price,
         cells |-> profits[i]]]

otherVars == <<priceVars, rowVars, extractVars, config_file, sessionVars>>

InitRun ==
    /\ pc = "setup"
    /\ program \in {"sequential", "parallel", "main"}
    /\ df \in InputFrames
    /\ result_df = <<>>
    /\ next_index = 0
    /\ futures = <<>>
    /\ extraction_results = <<>>
    /\ search_results = <<>>
    /\ profit_items = <<>>
    /\ output = NotRun
    /\ waits = <<>>
    /\ searches = <<>>
    /\ browsers = {}
    /\ max_workers = 0
    /\ drivers = <<>>
    /\ prompts = 0
    /\ writes = <<>>
    /\ IdlePrice
    /\ IdleConfig
    /\ IdleRow
    /\ IdleExtract
    /\ IdleTools

\* process_csv_with_config_analysis up to the loop: the configuration, the
\* frame, the driver and the login
StartSequential ==
    /\ pc = "setup"
    /\ program = "sequential"
    /\ config' = LoadConfig(config_file)
    /\ result_df' = CopyWithBlankColumns(df)
    /\ \E driver \in BOOLEAN : pc' = IF driver THEN "loop" ELSE "failed"
    /\ UNCHANGED <<toolVars, otherVars, waits, searches, browsers,
                    program, df, next_index, futures, extraction_results,
                   search_results, profit_items, output>>

\* one iteration of for index, row in df.iterrows()
SequentialStep ==
    /\ pc = "loop"
    /\ program = "sequential"
    /\ next_index < Len(df)
    /\ \E env \in RowEnvs :
           result_df' = SequentialRow(result_df, next_index, df[next_index + 1], config, env)
    /\ searches' \in SearchesAfter(searches, next_index, df[next_index + 1])
    /\ next_index' = next_index + 1
    /\ UNCHANGED <<toolVars, otherVars, waits, browsers, config, pc, program, df, futures, extraction_results,
                   search_results, profit_items, output>>

\* after the loop: to_csv, then the statistics, which divide by len(df)
SaveSequential ==
    /\ pc = "loop"
    /\ program = "sequential"
    /\ next_index = Len(df)
    /\ output' = [rows |-> ToCsv(result_df)]
    /\ pc' = IF Len(df) = 0 THEN "failed" ELSE "saved"
    /\ UNCHANGED <<toolVars, otherVars, waits, searches, browsers,
                    config, program, df, result_df, next_index, futures,
                   extraction_results, search_results, profit_items>>

\* process_csv_parallel up to the submission of every item
StartParallel ==
    /\ pc = "setup"
    /\ program = "parallel"
    /\ config' = LoadConfig(config_file)
    /\ result_df' = CopyWithBlankColumns(df)
    /\ futures' = [i \in 0..(Len(df) - 1) |-> [state |-> "submitted", result |-> NoneProduct]]
    /\ pc' = "workers"
    /\ UNCHANGED <<toolVars, otherVars, waits, searches, browsers,
                    program, df, next_index, extraction_results,
                   search_results, profit_items, output>>

\* a worker thread runs process_single_item for one item
RunWorker ==
    /\ pc = "workers"
    /\ \E i \in DOMAIN futures :
           /\ futures[i].state = "submitted"
           /\ \E env \in RowEnvs :
                  futures' = [futures EXCEPT ![i] =
                                 [state |-> "done",
                                  result |-> ProcessSingleItem(i, df[i + 1], config, env)]]
           /\ searches' \in SearchesAfter(searches, i, df[i + 1])
           /\ browsers' = BrowsersAfter(browsers, i, df[i + 1])
    /\ UNCHANGED <<toolVars, otherVars, waits, config, pc, program, df, result_df, next_index,
                   extraction_results, search_results, profit_items, output>>

\* the as_completed loop takes a finished future: if result: result_df.at[...]
CollectFuture ==
    /\ pc = "workers"
    /\ \E i \in DOMAIN futures :
           /\ futures[i].state = "done"
           /\ result_df' = IF futures[i].result # NoneProduct
                           THEN At(result_df, futures[i].result.index, futures[i].result.cells)
                           ELSE result_df
           /\ futures' = [futures EXCEPT ![i].state = "collected"]
    /\ UNCHANGED <<toolVars, otherVars, waits, searches, browsers,
                    config, pc, program, df, next_index, extraction_results,
                   search_results, profit_items, output>>

\* after the pool: the average time divides by len(df), then to_csv
SaveParallel ==
    /\ pc = "workers"
    /\ \A i \in DOMAIN futures : futures[i].state = "collected"
    /\ output' = IF Len(df) = 0 THEN output ELSE [rows |-> ToCsv(result_df)]
    /\ pc' = IF Len(df) = 0 THEN "failed" ELSE "saved"
    /\ UNCHANGED <<toolVars, otherVars, waits, searches, browsers,
                    config, program, df, result_df, next_index, futures,
                   extraction_results, search_results, profit_items>>

\* MercariEbayTool.run up to the loop: the data, the browser, the session
StartMain ==
    /\ pc = "setup"
    /\ program = "main"
    /\ \E browser \in BOOLEAN : pc' = IF df # <<>> /\ browser THEN "loop" ELSE "failed"
    /\ UNCHANGED <<toolVars, otherVars, waits, searches, browsers,
                    config, program, df, result_df, next_index, futures,
                   extraction_results, search_results, profit_items, output>>

\* one iteration of for i, item in enumerate(original_data)
MainStep ==
    /\ pc = "loop"
    /\ program = "main"
    /\ next_index < Len(df)
    /\ \E outcome \in MainOutcomes, best \in BestItems :
           /\ extraction_results' =
                  ExtractionResultsAfter(extraction_results, next_index, outcome)
           /\ search_results' = SearchResultsAfter(search_results, next_index, outcome, best)
           /\ waits' = WaitsAfter(waits, next_index, outcome)
           /\ searches' = MainSearchesAfter(searches, next_index, outcome)
    /\ next_index' = next_index + 1
    /\ UNCHANGED <<toolVars, otherVars, browsers, config, pc, program, df, result_df, futures, profit_items,
                   output>>

\* steps 4 and 5 of run: the profit items, the result data, the file; a
\* raising collaborator ends the run without a file
FinishMain ==
    /\ pc = "loop"
    /\ program = "main"
    /\ next_index = Len(df)
    /\ profit_items' = ProfitItems(df, search_results)
    /\ \E written \in BOOLEAN :
           /\ output' = IF written
                        THEN [rows |-> GenerateResultData(df, extraction_results,
                                           search_results, ProfitItems(df, search_results))]
                        ELSE output
           /\ pc' = IF written THEN "saved" ELSE "failed"
    /\ UNCHANGED <<toolVars, otherVars, waits, searches, browsers,
                    config, program, df, result_df, next_index, futures,
                   extraction_results, search_results>>

NextRun ==
    \/ StartSequential
    \/ SequentialStep
    \/ SaveSequential
    \/ StartParallel
    \/ RunWorker
    \/ CollectFuture
    \/ SaveParallel
    \/ StartMain
    \/ MainStep
    \/ FinishMain

SpecRun == InitRun /\ [][NextRun]_vars

-----------------------------------------------------------------------------
(* Specification of a call of WatchModelExtractor.extract_model_numbers, from *)
(* the command line or from other code                                       *)

TitleCasio == <<"C", "A", "S", "I", "O", " ", "G", "-", "S", "H", "O", "C", "K", " ",
                "D", "W", "-", "5", "6", "0", "0", "E", "-", "1">>
TitleBvlgari == <<"B", "V", "L", "G", "A", "R", "I", " ", "B", "B", "2", "6", "S", "S">>
TitleOmegaTwice == <<"O", "M", "E", "G", "A", " ", "o", "m", "e", "g", "a", " ",
                     "3", "5", "1", "0", ".", "5", "0">>

TitleUnbranded == <<"D", "W", "-", "5", "6", "0", "0">>

\* the title cells of the enumerated files
CsvCells == {TitleCasio, TitleBvlgari, TitleOmegaTwice, TitleSBGX, TitleUnbranded, NaN}

\* a file with one row more than detect_brand reads
LongCsv ==
    CsvFile([i \in 1..(SampleRows + 1) |-> IF i <= SampleRows THEN TitleSBGX ELSE TitleCasio])

TitleOmegaCal == <<"O", "M", "E", "G", "A", " ", "C", "a", "l", ".", "4", "8", "4">>

\* a file whose title holds a caliber number
CaliberCsv == CsvFile(<<TitleOmegaCal>>)

CsvFiles ==
    {CsvFile(titles) : titles \in TextsUpTo(CsvCells, MaxItems)}
        \cup {MissingCsv, CsvWithoutTitle(<<>>), CsvWithoutTitle(<<NaN>>), LongCsv, CaliberCsv}

\* the target_brands argument
RequestedBrands ==
    { NoneVal, <<"CASIO">>, <<"OMEGA", "BVLGARI">>, <<"ROLEX">>, <<"ROLEX", "GRAND_SEIKO">> }

IsRegistered(brand) == brand \in DOMAIN brand_patterns

InitBrand ==
    /\ pc \in {"cli_args", "detect"}
    /\ csv_file \in CsvFiles
    /\ target_brands \in RequestedBrands
    /\ detection = NotRun
    /\ brand_index = 0
    /\ extracted_models = <<>>
    /\ brand_summary = <<>>
    /\ saved_files = NotRun
    /\ IdlePrice
    /\ IdleConfig
    /\ IdleRow
    /\ IdleExtract
    /\ IdleRun
    /\ IdleCli

\* main(): argparse takes --brands from the four choices only, and a missing
\* file ends the program before the extractor is made
ParseArgs ==
    /\ pc = "cli_args"
    /\ pc' = IF target_brands # NoneVal /\ \E i \in 1..Len(target_brands) : ~IsRegistered(target_brands[i])
             THEN "usage_error"
             ELSE IF ~csv_file.exists THEN "no_file"
             ELSE "detect"
    /\ UNCHANGED <<priceVars, configVars, rowVars, extractVars, runVars, cliVars, brandVars>>

\* if target_brands is None: the detected brand, or all four
DetectBrand ==
    /\ pc = "detect"
    /\ target_brands = NoneVal
    /\ detection' = DetectBrandOf(csv_file)
    /\ target_brands' = TargetBrands(detection'.brand)
    /\ pc' = "read_csv"
    /\ UNCHANGED <<priceVars, configVars, rowVars, extractVars, runVars, cliVars, csv_file, brand_index,
                   extracted_models, brand_summary, saved_files>>

\* df = pd.read_csv(csv_file)
ReadCsv ==
    /\ \/ pc = "read_csv"
       \/ pc = "detect" /\ target_brands # NoneVal
    /\ IF csv_file.exists
       THEN pc' = "brands" /\ brand_index' = 1
       ELSE pc' = "raised" /\ brand_index' = brand_index
    /\ UNCHANGED <<priceVars, configVars, rowVars, extractVars, runVars, cliVars, csv_file, target_brands,
                   detection, extracted_models, brand_summary, saved_files>>

\* if brand not in self.brand_patterns: a warning, and the next brand
SkipBrand ==
    /\ pc = "brands"
    /\ brand_index <= Len(target_brands)
    /\ ~IsRegistered(target_brands[brand_index])
    /\ brand_index' = brand_index + 1
    /\ UNCHANGED <<priceVars, configVars, rowVars, extractVars, runVars, cliVars, pc, csv_file, target_brands,
                   detection, extracted_models, brand_summary, saved_files>>

\* the entries of a list without those that repeat an earlier model_number
RECURSIVE WithoutRepeats(_)
WithoutRepeats(models) ==
    IF models = <<>> THEN <<>>
    ELSE LET front == WithoutRepeats(SubSeq(models, 1, Len(models) - 1))
             last  == models[Len(models)]
         IN  IF \E j \in 1..Len(front) : front[j].model_number = last.model_number
             THEN front
             ELSE Append(front, last)

\* the variant of the loop's bookkeeping that adds a matched text only once
AddBrandWithoutRepeats(brand, models) ==
    /\ extracted_models' = extracted_models \o WithoutRepeats(models)
    /\ brand_summary' = Append(brand_summary,
                               [brand |-> brand, count |-> Len(WithoutRepeats(models))])

AddBrand(brand, models) ==
    /\ extracted_models' = extracted_models \o models
    /\ brand_summary' = Append(brand_summary, [brand |-> brand, count |-> Len(models)])

\* every row and every rule of one brand; row['title'] raises KeyError when
\* the file has rows and no title column
ExtractBrand ==
    /\ pc = "brands"
    /\ brand_index <= Len(target_brands)
    /\ IsRegistered(target_brands[brand_index])
    /\ IF ~csv_file.title_column /\ csv_file.titles # <<>>
       THEN /\ pc' = "raised"
            /\ UNCHANGED <<brand_index, extracted_models, brand_summary>>
       ELSE /\ AddBrand(target_brands[brand_index],
                        BrandModels(target_brands[brand_index],
                                    IF csv_file.title_column THEN csv_file.titles ELSE <<>>, 1))
            /\ brand_index' = brand_index + 1
            /\ pc' = pc
    /\ UNCHANGED <<priceVars, configVars, rowVars, extractVars, runVars, cliVars, csv_file, target_brands,
                   detection, saved_files>>

\* after the loop both files are written, whatever was extracted
SaveModels ==
    /\ pc = "brands"
    /\ brand_index > Len(target_brands)
    /\ saved_files' = [model_numbers_extracted |-> extracted_models,
                       unique_models |-> UniqueModels(extracted_models)]
    /\ pc' = "returned"
    /\ UNCHANGED <<priceVars, configVars, rowVars, extractVars, runVars, cliVars, csv_file, target_brands,
                   detection, brand_index, extracted_models, brand_summary>>

NextBrand ==
    \/ ParseArgs
    \/ DetectBrand
    \/ ReadCsv
    \/ SkipBrand
    \/ ExtractBrand
    \/ SaveModels

SpecBrand == InitBrand /\ [][NextBrand]_vars

-----------------------------------------------------------------------------
(* Specification of the command line tool main.py: the checks of main(), the *)
(* construction of the tool, then a dry run or a run, and the exit code      *)

\* most rows of the input file of main.py
MaxCliItems == 4

\* the dry run shows original_data[:3]
SampleItems == 3

\* the calls that open or use the browser, search eBay or write results
BrowserCalls == {"initialize_browser", "check_ebay_session", "wait_for_manual_login",
                 "close_browser"}
SearchCalls == {"search_model"}
OutputCalls == {"save_results_csv", "save_summary_report", "save_error_log",
                "save_profitable_items"}

Repeat(call, n) == [i \in 1..n |-> call]

\* the calls of dry_run; the second also opens the browser, as run does
DryRunCallsWithBrowser(config_ok, readable, items) ==
    <<"get_config_summary">>
        \o (IF config_ok THEN <<"read_csv">> ELSE <<>>)
        \o (IF config_ok /\ readable
            THEN <<"get_processing_data", "initialize_browser">>
                     \o Repeat("extract_model", Min2(items, SampleItems))
            ELSE <<>>)

DryRunCalls(config_ok, readable, items) ==
    <<"get_config_summary">>
        \o (IF config_ok THEN <<"read_csv">> ELSE <<>>)
        \o (IF config_ok /\ readable
            THEN <<"get_processing_data">> \o Repeat("extract_model", Min2(items, SampleItems))
            ELSE <<>>)

\* what the collaborators do at the start of run: whether the configuration
\* summary, the browser start, the session check and the manual login succeed
SetupEnvs == [config_ok : BOOLEAN, browser_ok : BOOLEAN, session : BOOLEAN, login : BOOLEAN]

\* the calls of run up to the loop, and whether the loop is reached
SetupCalls(env, readable, items) ==
    <<"get_config_summary">>
        \o (IF env.config_ok THEN <<"read_csv">> ELSE <<>>)
        \o (IF env.config_ok /\ readable THEN <<"get_processing_data">> ELSE <<>>)
        \o (IF env.config_ok /\ readable /\ items > 0 THEN <<"initialize_browser">> ELSE <<>>)
        \o (IF env.config_ok /\ readable /\ items > 0 /\ env.browser_ok
            THEN <<"check_ebay_session">> ELSE <<>>)
        \o (IF env.config_ok /\ readable /\ items > 0 /\ env.browser_ok /\ ~env.session
            THEN <<"wait_for_manual_login">> ELSE <<>>)

SetupDone(env, readable, items) ==
    /\ env.config_ok
    /\ readable
    /\ items > 0
    /\ env.browser_ok
    /\ env.session \/ env.login

\* the calls of one iteration of the loop
ItemCalls(outcome) ==
    IF outcome \in {"no_model", "extract_raises"} THEN <<"extract_model">>
    ELSE IF outcome = "rate_limit" THEN <<"extract_model", "search_model", "sleep">>
    ELSE <<"extract_model", "search_model">>

\* the calls after the loop: every file when nothing raises
FinishCalls(written) ==
    IF written
    THEN <<"batch_calculate_profits", "generate_result_data", "save_results_csv",
           "generate_summary_report", "save_summary_report", "save_error_log",
           "save_profitable_items">>
    ELSE <<"batch_calculate_profits">>

InitCli ==
    /\ pc = "cli_main"
    /\ cli_args \in [input_exists : BOOLEAN, dry_run : BOOLEAN, readable : BOOLEAN,
                     items : 0..MaxCliItems]
    /\ cli_args.readable => cli_args.input_exists
    /\ ~cli_args.readable => cli_args.items = 0
    /\ calls = <<>>
    /\ cli_result = "none"
    /\ exit_code = -1
    /\ IdlePrice
    /\ IdleConfig
    /\ IdleRow
    /\ IdleExtract
    /\ IdleRun
    /\ IdleBrand

\* main(): a missing input file ends the program with code 1
CheckInputFile ==
    /\ pc = "cli_main"
    /\ IF cli_args.input_exists
       THEN pc' = "cli_init" /\ UNCHANGED <<cli_result, exit_code>>
       ELSE pc' = "cli_exited" /\ cli_result' = "missing_input" /\ exit_code' = 1
    /\ UNCHANGED <<priceVars, configVars, rowVars, extractVars, runVars, brandVars, cli_args, calls>>

\* MercariEbayTool(args.config): _initialize_components exits with code 1
\* when a component cannot be made
InitializeComponents ==
    /\ pc = "cli_init"
    /\ calls' = Append(calls, "initialize_components")
    /\ \E ok \in BOOLEAN :
           IF ok
           THEN pc' = "cli_dispatch" /\ UNCHANGED <<cli_result, exit_code>>
           ELSE pc' = "cli_exited" /\ cli_result' = "init_error" /\ exit_code' = 1
    /\ UNCHANGED <<priceVars, configVars, rowVars, extractVars, runVars, brandVars, cli_args>>

\* tool.dry_run(...): every exception is caught and printed inside dry_run,
\* main() then returns and the process ends with code 0
DryRun ==
    /\ pc = "cli_dispatch"
    /\ cli_args.dry_run
    /\ \E config_ok \in BOOLEAN :
           /\ calls' = calls \o DryRunCalls(config_ok, cli_args.readable, cli_args.items)
           /\ cli_result' = IF config_ok /\ cli_args.readable
                            THEN "dry_run_done" ELSE "dry_run_error"
    /\ exit_code' = 0
    /\ pc' = "cli_exited"
    /\ UNCHANGED <<priceVars, configVars, rowVars, extractVars, runVars, brandVars, cli_args>>

\* tool.run(...) up to the loop; when a step raises, run closes the browser
\* and returns '', and main() exits with code 1
RunSetup ==
    /\ pc = "cli_dispatch"
    /\ ~cli_args.dry_run
    /\ \E env \in SetupEnvs :
           IF SetupDone(env, cli_args.readable, cli_args.items)
           THEN /\ calls' = calls \o SetupCalls(env, cli_args.readable, cli_args.items)
                /\ pc' = "cli_loop"
                /\ UNCHANGED <<cli_result, exit_code>>
           ELSE /\ calls' = calls \o SetupCalls(env, cli_args.readable, cli_args.items)
                               \o <<"close_browser">>
                /\ pc' = "cli_exited"
                /\ cli_result' = "run_error"
                /\ exit_code' = 1
    /\ next_index' = 0
    /\ UNCHANGED <<priceVars, configVars, rowVars, extractVars, brandVars, cli_args, program, df,
                   result_df, futures, extraction_results, search_results, profit_items, output,
                   waits, searches, browsers, sessionVars>>

\* one iteration of the loop of run
RunItem ==
    /\ pc = "cli_loop"
    /\ next_index < cli_args.items
    /\ \E outcome \in MainOutcomes : calls' = calls \o ItemCalls(outcome)
    /\ next_index' = next_index + 1
    /\ UNCHANGED <<priceVars, configVars, rowVars, extractVars, brandVars, cli_args, cli_result,
                   exit_code, pc, program, df, result_df, futures, extraction_results,
                   search_results, profit_items, output, waits, searches, browsers,
                   sessionVars>>

\* the rest of run, its finally clause, and the exit code main() derives from
\* the returned file name
RunFinish ==
    /\ pc = "cli_loop"
    /\ next_index = cli_args.items
    /\ \E written \in BOOLEAN :
           /\ calls' = calls \o FinishCalls(written) \o <<"close_browser">>
           /\ cli_result' = IF written THEN "run_done" ELSE "run_error"
           /\ exit_code' = IF written THEN 0 ELSE 1
    /\ pc' = "cli_exited"
    /\ UNCHANGED <<priceVars, configVars, rowVars, extractVars, runVars, brandVars, cli_args>>

NextCli ==
    \/ CheckInputFile
    \/ InitializeComponents
    \/ DryRun
    \/ RunSetup
    \/ RunItem
    \/ RunFinish

SpecCli == InitCli /\ [][NextCli]_vars

-----------------------------------------------------------------------------
(* Properties: what the specification says of a row's evaluation, stated     *)
(* from the row's own data                                                   *)

Evaluated == pc = "evaluated"

AfterEvaluation == pc \in {"evaluated", "returned", "done"}

FilterOn == "enable_price_filter" \in DOMAIN config /\ config["enable_price_filter"]
FilterMin == IF "min_price" \in DOMAIN config THEN config["min_price"] ELSE RInt(0)
FilterMax == IF "max_price" \in DOMAIN config THEN config["max_price"] ELSE RInt(999999)

\* minimumRequired = sourcePriceLocal * (1 + markupRate) + fixedProfitLocal
MinimumRequired ==
    RAdd(RMul(mercari_price, RAdd(RInt(1), config["markup_rate"])), config["fixed_profit"])

RowPriceText(row) == FirstPriceMatch(row.price_cells)
RowUsd(row) == ParsePrice(RowPriceText(row))
RowJpy(row) == RMul(RowUsd(row), config["fixed_rate"])

\* a candidate is a row whose price was obtained: a dollar amount above zero
IsCandidate(row) == RowPriceText(row) # NoneVal /\ RGt(RowUsd(row), RZero)
InFilter(row) == FilterOn => (RLe(FilterMin, RowUsd(row)) /\ RLe(RowUsd(row), FilterMax))
MeetsMinimum(row) == RGe(RowJpy(row), MinimumRequired)
Qualifies(row) == IsCandidate(row) /\ InFilter(row) /\ MeetsMinimum(row)

IsProductOf(product, row) ==
    /\ product.item_name = row.item_name
    /\ product.item_url = row.item_url
    /\ product.price = RowPriceText(row)
    /\ product.usd_price = RowUsd(row)

\* C1: with the price filter enabled, a candidate outside [min_price, max_price]
\* never reaches the profitable list, the returned product is inside the filter,
\* and the result is None when no in-filter candidate meets the minimum, even
\* if an out-of-filter candidate does (prices 50, 500, 5000 under [100, 1000]).
C1_FilterBeforeSelection ==
    (Evaluated /\ FilterOn) =>
        /\ \A j \in 1..Len(profitable_products) :
               /\ RLe(FilterMin, profitable_products[j].usd_price)
               /\ RLe(profitable_products[j].usd_price, FilterMax)
        /\ highest_product # NoneProduct =>
               /\ RLe(FilterMin, highest_product.usd_price)
               /\ RLe(highest_product.usd_price, FilterMax)
        /\ (\A i \in 1..Len(table_rows) : ~Qualifies(table_rows[i])) =>
               highest_product = NoneProduct

C1_Witness ==
    /\ pc = "evaluated"
    /\ FilterOn
    /\ table_rows = ExamplePage
    /\ mercari_price = RInt(100000)
    /\ ~MeetsMinimum(table_rows[2])
    /\ MeetsMinimum(table_rows[3])
    /\ highest_product = NoneProduct

\* C2: the returned product is the qualifying candidate (in the filter, converted
\* price at least the minimum) of highest dollar price, the first such row of the
\* page when several share that price.
C2_MaxPriceFirstOnTie ==
    Evaluated =>
        LET Q == {i \in 1..Len(table_rows) : Qualifies(table_rows[i])}
        IN  IF Q = {} THEN highest_product = NoneProduct
            ELSE LET best == CHOOSE i \in Q : \A j \in Q :
                                 \/ RGt(RowUsd(table_rows[i]), RowUsd(table_rows[j]))
                                 \/ /\ RowUsd(table_rows[i]) = RowUsd(table_rows[j])
                                    /\ i <= j
                 IN  /\ highest_product # NoneProduct
                     /\ IsProductOf(highest_product, table_rows[best])

C2_Witness ==
    /\ pc = "evaluated"
    /\ table_rows = TiePage
    /\ Qualifies(table_rows[1]) /\ Qualifies(table_rows[2]) /\ Qualifies(table_rows[3])
    /\ RLt(RowUsd(table_rows[1]), RowUsd(table_rows[2]))
    /\ RowUsd(table_rows[2]) = RowUsd(table_rows[3])
    /\ table_rows[2].item_name = "A"
    /\ table_rows[3].item_name = "B"
    /\ highest_product # NoneProduct
    /\ highest_product.item_name = "A"

\* C3: when no candidate qualifies (an empty page included) the call returns
\* None, a returned product is never a zero-valued record, and for None the
\* caller writes nothing into the row.
C3_NoneWhenNothingQualifies ==
    AfterEvaluation =>
        /\ (Evaluated /\ \A i \in 1..Len(table_rows) : ~Qualifies(table_rows[i])) =>
               highest_product = NoneProduct
        /\ highest_product # NoneProduct =>
               /\ RGt(highest_product.usd_price, RZero)
               /\ RGt(highest_product.price_numeric, RZero)
        /\ (pc = "returned" /\ highest_product = NoneProduct) => worker_result = NoneProduct
        /\ (pc = "done" /\ highest_product = NoneProduct) => result_row = BlankCells

C3_Witness ==
    /\ pc = "done"
    /\ table_rows = <<>>
    /\ highest_product = NoneProduct
    /\ result_row = BlankCells

C4_WitnessZeroMinimum ==
    /\ pc = "evaluated"
    /\ RLe(MinimumRequired, RZero)
    /\ Len(profitable_products) > 0

VerdictWritten == pc = "done" /\ result_row.verdict = "OK"

\* C5 as stated: for a written verdict the selected candidate is profitable, its
\* converted price is at least the minimum, and the profit amount written equals
\* price_numeric - mercari_price.
C5_ProfitWrittenIsExactDifference ==
    VerdictWritten =>
        /\ highest_product # NoneProduct
        /\ highest_product.is_profitable
        /\ RGe(highest_product.price_numeric, MinimumRequired)
        /\ RInt(result_row.profit[2]) = RSub(highest_product.price_numeric, mercari_price)

\* C5 amended: for a written verdict (sequential and parallel orchestrator) the
\* selected candidate is profitable, its converted price is at least the
\* minimum, and the profit amount written is price_numeric - mercari_price
\* rounded to whole yen: it differs from the difference by at most half a yen.
C5_ProfitWrittenIsRoundedDifference ==
    VerdictWritten =>
        /\ highest_product # NoneProduct
        /\ highest_product.is_profitable
        /\ RGe(highest_product.price_numeric, MinimumRequired)
        /\ LET exact == RSub(highest_product.price_numeric, mercari_price)
               yen   == result_row.profit[2]
           IN  2 * Abs(yen * exact.d - exact.n) <= exact.d

C5_Witness ==
    /\ VerdictWritten
    /\ caller = "parallel"
    /\ highest_product.price = Txt100c
    /\ RSub(highest_product.price_numeric, mercari_price).d # 1

-----------------------------------------------------------------------------
(* Properties of parse_price *)

HasDigit(text) == \E i \in 1..Len(text) : text[i] \in Digits

Raised(outcome) == "exc" \in DOMAIN outcome

\* C6: parse_price never raises; empty or missing text and text without a digit
\* give 0.0.
C6_ParsePriceNeverRaises ==
    pc = "done" =>
        /\ ~Raised(parsed)
        /\ (price_text = NoneVal \/ price_text = <<>> \/ ~HasDigit(price_text)) =>
               parsed = RZero

C6_Witness ==
    /\ pc = "done"
    /\ price_text = TxtNA
    /\ parsed = RZero

\* the value of the first maximal run digits[.digits] of s
FirstDecimalRun(s) ==
    LET i    == FirstIn(s, 1, Digits)
        n1   == RunLen(s, i, Digits)
        p    == i + n1
        n2   == IF p < Len(s) /\ s[p] = "." THEN RunLen(s, p + 1, Digits) ELSE 0
        whole == RInt(DigitsValue(SubSeq(s, i, p - 1)))
    IN  IF n2 = 0 THEN whole
        ELSE RAdd(whole, Rat(DigitsValue(SubSeq(s, p + 1, p + n2)), Pow10(n2)))

\* C7: parse_price drops every thousands separator and returns the value of the
\* first maximal run digits[.digits], whatever precedes it: "$1,625.00" gives
\* 1625.0 and the yen amount "150,000" gives 150000.0.
C7_ParsePriceFirstDecimalRun ==
    pc = "done" =>
        /\ (price_text # NoneVal /\ HasDigit(price_text)) =>
               parsed = FirstDecimalRun(RemoveChar(price_text, ","))
        /\ price_text = <<"$", "1", ",", "6", "2", "5", ".", "0", "0">> =>
               parsed = RInt(1625)
        /\ price_text = <<"yen", "1", "5", "0", ",", "0", "0", "0">> =>
               parsed = RInt(150000)

C7_Witness ==
    /\ pc = "done"
    /\ price_text = <<"$", "1", ",", "6", "2", "5", ".", "0", "0">>
    /\ parsed = RInt(1625)

-----------------------------------------------------------------------------
(* Properties of load_config *)

\* C8: for a file that is present, load_config keeps every value the file gives
\* and supplies the default only for the keys among markup_rate, fixed_profit
\* and the exchange rate that the file lacks, without raising.
C8_DefaultsFallBackPerKey ==
    (pc = "done" /\ config_file.kind = "mapping") =>
        /\ ~Raised(config)
        /\ \A k \in DOMAIN config_file.content :
               k \in DOMAIN config /\ config[k] = config_file.content[k]
        /\ \A k \in RequiredKeys \ DOMAIN config_file.content :
               k \in DOMAIN config /\ config[k] = DefaultConfig[k]

-----------------------------------------------------------------------------
(* Properties of the extraction *)

Extracted == model_numbers # NotRun

\* empty or missing text
EmptyOrMissing(t) == t = NoneVal \/ t = <<>>

\* text made of the boilerplate suffix only
BoilerplateOnly(t) ==
    t \in {NoThumbnailSuffix, ThumbnailSuffix,
           NoThumbnailSuffix \o <<"nl">>, ThumbnailSuffix \o <<"nl">>}

\* no pattern matches at any position of the cleaned text
MatchesNoPattern(t) ==
    /\ ~EmptyOrMissing(t)
    /\ \A k \in DOMAIN Patterns :
           \A p \in 1..Len(StripThumbnail(t)) :
               ~MatchFrom(Patterns[k].items, 1, StripThumbnail(t), p).ok

\* every pattern asks for three digits in a row
NoThreeDigits(t) ==
    /\ ~EmptyOrMissing(t)
    /\ \A p \in 1..(Len(t) - 2) : ~({t[p], t[p + 1], t[p + 2]} \subseteq Digits)

\* C10: extract_model_numbers never raises, and returns an empty result for
\* empty or missing text, for text that matches none of the patterns and for
\* text that is only the boilerplate suffix; the orchestrator then leaves the
\* row's result cells blank, searches nothing and goes on to the next row.
C10_NoMatchSafety ==
    Extracted =>
        /\ model_numbers.raised = ""
        /\ (\/ EmptyOrMissing(product_name)
            \/ MatchesNoPattern(product_name)
            \/ NoThreeDigits(product_name)
            \/ BoilerplateOnly(product_name)) => model_numbers.models = {}
        /\ (caller # "direct" /\ model_numbers.models = {} /\ pc # "extracted") =>
               /\ pc = "next_row"
               /\ result_row = BlankCells
               /\ model_number = NoneVal
        /\ pc = "search" => model_number \in model_numbers.models

C10_Witness ==
    /\ pc = "next_row"
    /\ caller = "sequential"
    /\ product_name = NoThumbnailSuffix
    /\ model_numbers = [raised |-> "", models |-> {}]
    /\ result_row = BlankCells

-----------------------------------------------------------------------------
(* Properties of a whole run *)

Written == "rows" \in DOMAIN output

IsOk(row) == row.cells # BlankCells /\ row.cells.verdict = "OK"

IsUppercase(text) == \A i \in 1..Len(text) : text[i] \notin Lower

\* C11: the identifiers extract_model_numbers returns are all uppercase, and
\* no two of them differ only in letter case.
C11_ResultIsUppercase ==
    Extracted =>
        /\ \A m \in model_numbers.models : IsUppercase(m)
        /\ \A m1, m2 \in model_numbers.models : ToUpper(m1) = ToUpper(m2) => m1 = m2

\* C12: the identifier used for a row is the first match of the earliest
\* pattern, in list order, that matches the title.
C12_FirstPatternMatchIsUsed ==
    pc = "search" => model_number = Head(FoundModels(product_name))

\* C13: two runs on the same title get the same extraction result and choose
\* the same search identifier.
C13_SecondRunEqualsFirst ==
    (first_run # NotRun /\ pc \in {"search", "next_row"}) =>
        /\ model_numbers = first_run.model_numbers
        /\ model_number = first_run.model_number

-----------------------------------------------------------------------------
(* Properties of the brand detection and of the extraction by brand *)

Detected == detection # NotRun /\ ~detection.raised

BrandSet == {AllBrands[i] : i \in 1..Len(AllBrands)}

StrictlyHighest(counts, brand) ==
    \A other \in BrandSet \ {brand} : counts[other] < counts[brand]

\* C14: detect_brand returns a brand only when its count is strictly higher
\* than every other brand's, and 'ALL' when the largest count is shared.
C14_SingleBrandOnlyWhenStrictlyHighest ==
    Detected =>
        IF \E b \in BrandSet : StrictlyHighest(detection.counts, b)
        THEN StrictlyHighest(detection.counts, detection.brand)
        ELSE detection.brand = "ALL"

Ambiguous ==
    /\ detection # NotRun
    /\ detection.raised \/ \A b \in BrandSet : detection.counts[b] = 0

SummaryBrands == [i \in 1..Len(brand_summary) |-> brand_summary[i].brand]

\* C15: after an ambiguous detection (no keyword found, or an exception) the
\* rules of all four brands are applied, after a detected brand exactly the
\* rules of that brand.
C15_AmbiguousAppliesAllBrands ==
    detection # NotRun =>
        /\ Ambiguous => target_brands = <<"BVLGARI", "GRAND_SEIKO", "CASIO", "OMEGA">>
        /\ ~Ambiguous => target_brands = <<detection.brand>> /\ detection.brand \in BrandSet
        /\ pc = "returned" =>
              /\ SummaryBrands = target_brands
              /\ \A i \in 1..Len(extracted_models) :
                     \E j \in 1..Len(target_brands) : extracted_models[i].brand = target_brands[j]

C15_Witness ==
    /\ pc = "returned"
    /\ Ambiguous
    /\ Len(brand_summary) = 4
    /\ extracted_models # <<>>

\* the occurrences of a keyword in a text
Occurrences(text, keyword) ==
    Cardinality({i \in 1..(Len(text) - Len(keyword) + 1) :
                    SubSeq(text, i, i + Len(keyword) - 1) = keyword})

RECURSIVE OccurrencesOfAny(_, _, _)
OccurrencesOfAny(text, keywords, k) ==
    IF k > Len(keywords) THEN 0
    ELSE Occurrences(text, keywords[k]) + OccurrencesOfAny(text, keywords, k + 1)

AllTitlesText == ToUpper(Join([i \in 1..Len(csv_file.titles) |-> Str(csv_file.titles[i])]))

\* C16: the score of a brand is the number of occurrences of its keywords in
\* the titles of the file, all of them, joined.
C16_ScoreCountsOccurrences ==
    Detected =>
        \A b \in BrandSet : detection.counts[b] = OccurrencesOfAny(AllTitlesText, Keywords[b], 1)

\* C17: when a requested brand is not registered nothing is extracted and
\* nothing is written.
C17_UnregisteredBrandFailsFast ==
    (\E i \in 1..Len(target_brands) : target_brands # NoneVal /\ ~IsRegistered(target_brands[i])) =>
        /\ extracted_models = <<>>
        /\ brand_summary = <<>>
        /\ saved_files = NotRun

-----------------------------------------------------------------------------
(* Properties of the command line tool *)

Called(names) == \E i \in 1..Len(calls) : calls[i] \in names

\* C18: in dry-run mode the browser is never started, no session is checked
\* or waited for, eBay is never searched and no result file is written.
C18_DryRunOnlyExtracts ==
    cli_args.dry_run => ~Called(BrowserCalls \cup SearchCalls \cup OutputCalls)

C18_Witness ==
    /\ pc = "cli_exited"
    /\ cli_args.dry_run
    /\ cli_result = "dry_run_done"
    /\ Called({"extract_model"})

\* C19: the exit code is 0 exactly when the processing completed.
C19_ExitCodeZeroIffCompleted ==
    pc = "cli_exited" => (exit_code = 0 <=> cli_result \in {"run_done", "dry_run_done"})

-----------------------------------------------------------------------------
(* Properties of the rows of the result table *)

AllFilled(cells) ==
    /\ cells.ebay_name # ""
    /\ cells.ebay_url # ""
    /\ cells.usd # <<>>
    /\ cells.jpy # <<>>
    /\ cells.profit # <<>>
    /\ cells.verdict # ""

\* C20: in the result table of the sequential orchestrator a row's verdict is
\* 'OK' or blank; with 'OK' all six appended columns are filled, without it
\* all six are blank; the input columns of every row are unchanged.
C20_OkRowsFilledOtherRowsBlank ==
    (program = "sequential" /\ pc \in {"loop", "saved"}) =>
        \A i \in DOMAIN result_df :
            /\ result_df[i].title = df[i + 1].title
            /\ result_df[i].price = df[i + 1].price
            /\ IF result_df[i].cells.verdict = "OK"
               THEN AllFilled(result_df[i].cells)
               ELSE result_df[i].cells = BlankCells

-----------------------------------------------------------------------------
(* Properties of the product extract_highest_price_product returns *)

\* the tests of the row loop, stated for a product dictionary
PassedEveryTest(product) ==
    /\ RGt(product.usd_price, RZero)
    /\ product.price_numeric = RMul(product.usd_price, config["fixed_rate"])
    /\ RGe(product.price_numeric, MinimumRequired)
    /\ FilterOn => /\ RLe(FilterMin, product.usd_price)
                   /\ RLe(product.usd_price, FilterMax)

\* C27: every product on the profitable list, and so the returned one, has
\* usd_price > 0, price_numeric = usd_price * exchange_rate >= the minimum
\* required price and, with the filter enabled, a price inside the filter;
\* hence filtering the list again and the final range check change nothing:
\* a non-empty profitable list always yields its highest-priced product.
C27_ReturnedProductPassedEveryTest ==
    Evaluated =>
        /\ \A j \in 1..Len(profitable_products) : PassedEveryTest(profitable_products[j])
        /\ highest_product # NoneProduct => PassedEveryTest(highest_product)
        /\ profitable_products # <<>> => highest_product = MaxByUsd(profitable_products)
        /\ profitable_products = <<>> => highest_product = NoneProduct

C27_Witness ==
    /\ pc = "evaluated"
    /\ FilterOn
    /\ table_rows = ExamplePage
    /\ \E i \in 1..Len(table_rows) : IsCandidate(table_rows[i]) /\ ~InFilter(table_rows[i])
    /\ Len(profitable_products) = 1
    /\ highest_product = profitable_products[1]

-----------------------------------------------------------------------------
(* Properties of the suffix removal of extract_model_numbers *)

Drop(s, suffix) == SubSeq(s, 1, Len(s) - Len(suffix))

\* a rule that removes its suffix from a text that ends in it
RuleAtEnd(s, suffix) == IF EndsWith(s, suffix) THEN Drop(s, suffix) ELSE s

\* the text without its one final line feed, and that line feed
LineFeedTail(s) == IF s # <<>> /\ s[Len(s)] = "nl" THEN <<"nl">> ELSE <<>>
Body(s) == Drop(s, LineFeedTail(s))

\* a rule that removes its suffix from the end of the text or from before
\* the one final line feed
RuleBeforeLineFeed(s, suffix) == RuleAtEnd(Body(s), suffix) \o LineFeedTail(s)

EndsInListedSuffix(s) == EndsWith(s, NoThumbnailSuffix) \/ EndsWith(s, ThumbnailSuffix)

\* the patterns find in text what the call returned for product_name
MatchedAsIn(text) ==
    /\ StripThumbnail(product_name) = text
    /\ model_numbers.models = Range(FoundFrom(1, text))

\* C23 as stated: the longer suffix rule, then the shorter one, each applied
\* once and only to a text that ends in its suffix; a text that does not end
\* in a listed suffix is matched unchanged.
C23_SuffixStrippedAtEndOnly ==
    (Extracted /\ ~EmptyOrMissing(product_name)) =>
        /\ MatchedAsIn(RuleAtEnd(RuleAtEnd(product_name, NoThumbnailSuffix), ThumbnailSuffix))
        /\ ~EndsInListedSuffix(product_name) => MatchedAsIn(product_name)

\* C23: before matching, the longer suffix rule and then the shorter one are
\* applied, in this order and each once, to the end of the text, where the
\* end is taken before one final line feed if the text has one; the result
\* is not stripped again, and a text that ends in no listed suffix, with or
\* without a final line feed, is matched unchanged.
C23_SuffixStrippedOnceBeforeLineFeed ==
    (Extracted /\ ~EmptyOrMissing(product_name)) =>
        /\ MatchedAsIn(RuleBeforeLineFeed(RuleBeforeLineFeed(product_name, NoThumbnailSuffix),
                                          ThumbnailSuffix))
        /\ ~EndsInListedSuffix(Body(product_name)) => MatchedAsIn(product_name)

\* both rules have acted, the longer one first, and the text left still ends
\* in nothing that is stripped; elsewhere one rule leaves a suffix behind
C23_Witness ==
    /\ Extracted
    /\ product_name = TitleShortLong
    /\ StripThumbnail(product_name) = TitleA123
    /\ model_numbers.models = {TitleA123}
    /\ StripThumbnail(TitleShortShort) = TitleA123 \o ThumbnailSuffix
    /\ StripThumbnail(TitleLongShort) = TitleA123 \o NoThumbnailSuffix

-----------------------------------------------------------------------------
(* Properties of the list of all entries of WatchModelExtractor *)

Returned == pc = "returned"

\* the requested brands the registry holds
RegisteredRequested ==
    {target_brands[i] : i \in {j \in 1..Len(target_brands) : IsRegistered(target_brands[j])}}

BrandPos(brand) == CHOOSE i \in 1..Len(target_brands) : target_brands[i] = brand

RulePos(brand, type) ==
    CHOOSE k \in 1..Len(brand_patterns[brand]) : brand_patterns[brand][k].type = type

\* entry a does not come after entry b: by brand, then row, then rule
InOrder(a, b) ==
    \/ BrandPos(a.brand) < BrandPos(b.brand)
    \/ /\ a.brand = b.brand
       /\ \/ a.index < b.index
          \/ /\ a.index = b.index
             /\ RulePos(a.brand, a.pattern_type) <= RulePos(b.brand, b.pattern_type)

\* the model numbers of the entries of one brand, one row and one rule
TextsOfEntries(brand, index, type) ==
    LET entries == SelectSeq(extracted_models,
                             LAMBDA e : e.brand = brand /\ e.index = index
                                        /\ e.pattern_type = type)
    IN  [j \in 1..Len(entries) |-> entries[j].model_number]

\* the whole text of each match, whatever group the rule captures
WholeMatch(alts) == [k \in 1..Len(alts) |-> [items |-> alts[k].items, group |-> 0]]

Uppercased(texts) == [j \in 1..Len(texts) |-> ToUpper(texts[j])]

\* every entry belongs to a requested brand, a row and a rule, and the
\* entries are in the order brand, row, rule
EntriesInOrder ==
    /\ \A j \in 1..Len(extracted_models) :
           /\ extracted_models[j].brand \in RegisteredRequested
           /\ extracted_models[j].index \in 0..(Len(csv_file.titles) - 1)
           /\ extracted_models[j].title = Str(csv_file.titles[extracted_models[j].index + 1])
           /\ \E k \in 1..Len(brand_patterns[extracted_models[j].brand]) :
                  brand_patterns[extracted_models[j].brand][k].type
                      = extracted_models[j].pattern_type
    /\ \A j \in 1..(Len(extracted_models) - 1) :
           InOrder(extracted_models[j], extracted_models[j + 1])

\* C22 as stated: the list of all entries has, for every requested brand,
\* row and rule, one entry per match holding the uppercased matched text, in
\* the order brand, row, rule.
C22_EntryPerMatchWithMatchedText ==
    Returned =>
        /\ EntriesInOrder
        /\ \A brand \in RegisteredRequested : \A i \in 1..Len(csv_file.titles) :
               \A k \in 1..Len(brand_patterns[brand]) :
                   TextsOfEntries(brand, i - 1, brand_patterns[brand][k].type)
                       = Uppercased(FindAllOf(WholeMatch(brand_patterns[brand][k].alts),
                                              Str(csv_file.titles[i]), 1))

\* C22: the list of all entries has, for every requested brand the registry
\* holds, every row and every rule of the brand, one entry per match, with
\* the brand, the rule's label and the uppercased text that findall returns
\* for the match: the matched text, and for the caliber rule, which has a
\* group, the digits the group captured; a text matched by two rules appears
\* once for each; the entries are in the order of the requested brands, then
\* of the rows, then of the rules of the registry.
C22_EntryPerMatchInOrder ==
    Returned =>
        /\ EntriesInOrder
        /\ \A brand \in RegisteredRequested : \A i \in 1..Len(csv_file.titles) :
               \A k \in 1..Len(brand_patterns[brand]) :
                   TextsOfEntries(brand, i - 1, brand_patterns[brand][k].type)
                       = Uppercased(FindAllOf(brand_patterns[brand][k].alts,
                                              Str(csv_file.titles[i]), 1))

\* two brands and two rows: the two OMEGA entries of the second row, from two
\* rules with the same expression, come before the BVLGARI entry of the
\* first row
C22_Witness ==
    /\ pc = "returned"
    /\ target_brands = <<"OMEGA", "BVLGARI">>
    /\ csv_file.titles = <<TitleBvlgari, TitleOmegaTwice>>
    /\ Len(extracted_models) = 3
    /\ \A j \in 1..2 : /\ extracted_models[j].brand = "OMEGA"
                       /\ extracted_models[j].index = 1
                       /\ extracted_models[j].model_number = <<"3", "5", "1", "0", ".", "5", "0">>
    /\ extracted_models[1].pattern_type = "Speedmaster"
    /\ extracted_models[2].pattern_type = "Seamaster"
    /\ extracted_models[3].brand = "BVLGARI"
    /\ extracted_models[3].index = 0
    /\ extracted_models[3].model_number = <<"B", "B", "2", "6", "S", "S">>

-----------------------------------------------------------------------------
(* Properties of the processing loop of main.py *)

\* the loop of MercariEbayTool.run has handled every item
AfterLoop == program = "main" /\ pc \in {"loop", "saved", "failed"} /\ next_index = Len(df)

\* the number of entries of a list made from item
EntriesFor(results, item) == Cardinality({j \in 1..Len(results) : results[j].item = item})

\* C24: an item whose search raised RateLimitException, so that the loop
\* slept, is retried: it ends the loop with exactly one extraction result and
\* exactly one search result.
C24_RateLimitedItemIsRetried ==
    AfterLoop =>
        \A k \in 1..Len(waits) :
            /\ EntriesFor(extraction_results, waits[k]) = 1
            /\ EntriesFor(search_results, waits[k]) = 1

\* the price step 4 takes from a search result
PriceUsed(search_result) ==
    IF search_result.best_item # NoneProduct /\ search_result.best_item.price_usd > 0
    THEN search_result.best_item.price_usd
    ELSE 0

\* C26: after the loop extraction_results and search_results have one entry
\* per item of original_data, entry i made from item i, whatever happened to
\* the items, and the profit of row i is computed from the search result of
\* row i.
C26_ListsAlignedWithInput ==
    AfterLoop =>
        /\ Len(extraction_results) = Len(df)
        /\ Len(search_results) = Len(df)
        /\ \A i \in 1..Len(df) :
               /\ extraction_results[i].item = i - 1
               /\ search_results[i].item = i - 1
               /\ pc # "loop" => /\ profit_items[i].index = i - 1
                                 /\ profit_items[i].ebay_price_usd = PriceUsed(search_results[i])

-----------------------------------------------------------------------------
(* Properties of the searches of a run *)

NothingExtracted(row) == ExtractModelNumbers(Str(row.title)).models = {}

\* the rows the sequential loop or a worker of the pool has handled
Handled ==
    IF program = "sequential" /\ pc \in {"loop", "saved", "failed"} THEN 0..(next_index - 1)
    ELSE IF program = "parallel" /\ pc \in {"workers", "saved", "failed"}
    THEN {i \in DOMAIN futures : futures[i].state # "submitted"}
    ELSE {}

SearchedFor(item) == \E j \in 1..Len(searches) : searches[j].item = item

\* C30: a search is issued only with a non-empty identifier that was
\* extracted from the row; for a row whose extraction yields nothing no
\* search is issued, the parallel orchestrator opens no browser for it, and
\* the row is left blank (sequential, parallel) or recorded as no_model
\* (main.py).
C30_SearchOnlyWithIdentifier ==
    /\ \A j \in 1..Len(searches) : searches[j].query # <<>>
    /\ program \in {"sequential", "parallel"} =>
           /\ \A j \in 1..Len(searches) :
                  searches[j].query \in ExtractModelNumbers(Str(df[searches[j].item + 1].title)).models
           /\ \A i \in Handled :
                  NothingExtracted(df[i + 1]) =>
                      /\ ~SearchedFor(i)
                      /\ i \notin browsers
                      /\ result_df[i].cells = BlankCells
    /\ program = "main" =>
           \A j \in 1..Len(extraction_results) :
               (/\ extraction_results[j].extracted_model = ""
                /\ extraction_results[j].extraction_status = "done") =>
                   /\ ~SearchedFor(extraction_results[j].item)
                   /\ \A h \in 1..Len(search_results) :
                          search_results[h].item = extraction_results[j].item =>
                              search_results[h].search_status = "no_model"
                   /\ EntriesFor(search_results, extraction_results[j].item) = 1

\* a parallel run of a row without an identifier and a row with one: only
\* the second is searched and gets a browser
C30_Witness ==
    /\ program = "parallel"
    /\ pc = "saved"
    /\ Len(df) = 2
    /\ df[1].title = TitleWatch
    /\ df[2].title = TitleSBGX
    /\ searches = <<[item |-> 1, query |-> TitleSBGX]>>
    /\ browsers = {1}
    /\ result_df[0].cells = BlankCells


-----------------------------------------------------------------------------
(* Specification of the browser sessions of a run: the worker threads of the *)
(* parallel orchestrator step by step, and the single session of the         *)
(* sequential orchestrator and of MercariEbayTool.run                        *)

\* the largest max_workers of a run
MaxWorkers == 2

\* the largest number of rows of the input of a run with sessions
MaxSessionItems == 2

\* the rows of the input: a title with an identifier, a title without one
SessionRows ==
    { InputRow(TitleSBGX, <<"1", "0", "0", "0", "0">>),
      InputRow(TitleWatch, <<"1", "0", "0", "0", "0">>) }

SessionFrames == UNION {SeqsOfLen(SessionRows, k) : k \in 0..MaxSessionItems}

\* what the browser does for one search: a page with a profitable product,
\* a failed search, a raising call
SessionEnvs ==
    { [searched |-> TRUE, page |-> <<TableRow("A", <<Txt500>>)>>, raises |-> FALSE],
      [searched |-> FALSE, page |-> <<>>, raises |-> FALSE],
      [searched |-> TRUE, page |-> <<>>, raises |-> TRUE] }

\* the thread that runs process_csv_parallel and its as_completed loop
MainThread == 0

\* the thread of the pool that runs process_single_item for item i
WorkerThread(i) == i + 1

\* the owner of the one driver of the sequential orchestrator and of run
RunOwner == 0 - 1

\* worker_id = (i % max_workers) + 1
WorkerId(i, workers) == (i % workers) + 1

\* the variant of setup_driver that hands every caller the first driver
SharedDriver(opened) == 1

\* setup_driver: webdriver.Chrome(...) makes a new driver at every call
NewDriver(opened) == Len(opened) + 1

\* the driver table after setup_driver returned a driver to owner
Opened(opened, owner) == Append(opened, [owner |-> owner, open |-> TRUE, users |-> {}])

\* a call of a method of driver d made by the code that runs for item
Use(opened, d, item) == [opened EXCEPT ![d].users = @ \cup {item}]

\* the variant of the finally clause that leaves the browser open
LeaveDriver(opened, d) == opened

\* finally: driver.quit()
CloseDriver(opened, d) == [opened EXCEPT ![d].open = FALSE]

\* close_browser of the controller: its driver, when there is one, is quit
CloseBrowser(opened) == [d \in DOMAIN opened |-> [opened[d] EXCEPT !.open = FALSE]]

\* the variant of the collecting loop that writes the k-th completed result
\* to row k - 1
TargetRowByCompletion(result, completed) == completed - 1

\* index = result['index']: the row the collecting loop writes to
TargetRow(result, completed) == result.index

\* completed += 1 in the as_completed loop
Completed(fs) == Cardinality({i \in DOMAIN fs : fs[i].state = "collected"}) + 1

\* the items a thread of the pool is working on
Running(fs) == {i \in DOMAIN fs : fs[i].state \in {"get", "search", "quit"}}

sessionIdle == <<toolVars, priceVars, rowVars, extractVars, config_file, browsers>>
mainLists == <<extraction_results, search_results, profit_items, waits, searches>>

InitSession ==
    /\ pc = "setup"
    /\ program \in {"sequential", "parallel", "main"}
    /\ df \in SessionFrames
    /\ max_workers \in 1..MaxWorkers
    /\ result_df = <<>>
    /\ next_index = 0
    /\ futures = <<>>
    /\ extraction_results = <<>>
    /\ search_results = <<>>
    /\ profit_items = <<>>
    /\ output = NotRun
    /\ waits = <<>>
    /\ searches = <<>>
    /\ browsers = {}
    /\ drivers = <<>>
    /\ prompts = 0
    /\ writes = <<>>
    /\ IdlePrice
    /\ IdleConfig
    /\ IdleRow
    /\ IdleExtract
    /\ IdleTools

\* process_csv_parallel up to the submission of every item
StartPool ==
    /\ pc = "setup"
    /\ program = "parallel"
    /\ config' = LoadConfig(config_file)
    /\ result_df' = CopyWithBlankColumns(df)
    /\ futures' = [i \in 0..(Len(df) - 1) |->
                      [state |-> "submitted", result |-> NoneProduct, driver |-> 0]]
    /\ pc' = "pool"
    /\ UNCHANGED <<sessionIdle, mainLists, program, df, next_index, output, max_workers,
                   drivers, prompts, writes>>

\* a free thread of the pool takes the oldest submitted item and runs
\* process_single_item up to setup_driver
StartItem(i) ==
    /\ pc = "pool"
    /\ futures[i].state = "submitted"
    /\ \A j \in DOMAIN futures : j < i => futures[j].state # "submitted"
    /\ Cardinality(Running(futures)) < max_workers
    /\ LET found == ExtractModelNumbers(Str(df[i + 1].title))
       IN  IF found.raised # "" \/ found.models = {}
           THEN /\ futures' = [futures EXCEPT ![i].state = "done"]
                /\ UNCHANGED drivers
           ELSE \E made \in BOOLEAN :
                    IF made
                    THEN /\ futures' = [futures EXCEPT ![i].state = "get",
                                                       ![i].driver = NewDriver(drivers)]
                         /\ drivers' = Opened(drivers, i)
                    ELSE /\ futures' = [futures EXCEPT ![i].state = "done"]
                         /\ UNCHANGED drivers
    /\ UNCHANGED <<sessionIdle, mainLists, config, pc, program, df, result_df, next_index,
                   output, max_workers, prompts, writes>>

\* driver.get, then the login prompt of worker 1 or the sleep of the others
GetPage(i) ==
    /\ pc = "pool"
    /\ futures[i].state = "get"
    /\ drivers' = Use(drivers, futures[i].driver, i)
    /\ \E raises \in BOOLEAN :
           IF raises
           THEN /\ futures' = [futures EXCEPT ![i].state = "quit"]
                /\ UNCHANGED prompts
           ELSE /\ futures' = [futures EXCEPT ![i].state = "search"]
                /\ prompts' = IF WorkerId(i, max_workers) = 1 THEN prompts + 1 ELSE prompts
    /\ UNCHANGED <<sessionIdle, mainLists, config, pc, program, df, result_df, next_index,
                   output, max_workers, writes>>

\* search_model_number and extract_highest_price_product with the driver
SearchItem(i) ==
    /\ pc = "pool"
    /\ futures[i].state = "search"
    /\ drivers' = Use(drivers, futures[i].driver, i)
    /\ \E env \in SessionEnvs :
           futures' = [futures EXCEPT ![i].state = "quit",
                                      ![i].result = ProcessSingleItem(i, df[i + 1], config, env)]
    /\ UNCHANGED <<sessionIdle, mainLists, config, pc, program, df, result_df, next_index,
                   output, max_workers, prompts, writes>>

\* finally: driver.quit(), and the call returns
QuitItem(i) ==
    /\ pc = "pool"
    /\ futures[i].state = "quit"
    /\ drivers' = CloseDriver(drivers, futures[i].driver)
    /\ futures' = [futures EXCEPT ![i].state = "done"]
    /\ UNCHANGED <<sessionIdle, mainLists, config, pc, program, df, result_df, next_index,
                   output, max_workers, prompts, writes>>

\* the as_completed loop takes a finished future: if result: result_df.at[...]
Collect(i) ==
    /\ pc = "pool"
    /\ futures[i].state = "done"
    /\ IF futures[i].result # NoneProduct
       THEN /\ result_df' = At(result_df, TargetRow(futures[i].result, Completed(futures)),
                               futures[i].result.cells)
            /\ writes' = Append(writes,
                                [by |-> MainThread, item |-> i,
                                 row |-> TargetRow(futures[i].result, Completed(futures))])
       ELSE UNCHANGED <<result_df, writes>>
    /\ futures' = [futures EXCEPT ![i].state = "collected"]
    /\ UNCHANGED <<sessionIdle, mainLists, config, pc, program, df, next_index, output,
                   max_workers, drivers, prompts>>

\* after the pool: the average time divides by len(df), then to_csv
SavePool ==
    /\ pc = "pool"
    /\ \A i \in DOMAIN futures : futures[i].state = "collected"
    /\ output' = IF Len(df) = 0 THEN output ELSE [rows |-> ToCsv(result_df)]
    /\ pc' = "ended"
    /\ UNCHANGED <<sessionIdle, mainLists, config, program, df, result_df, next_index, futures,
                   max_workers, drivers, prompts, writes>>

\* process_csv_with_config_analysis up to setup_driver
SetupSequential ==
    /\ pc = "setup"
    /\ program = "sequential"
    /\ config' = LoadConfig(config_file)
    /\ result_df' = CopyWithBlankColumns(df)
    /\ \E made \in BOOLEAN :
           IF made
           THEN /\ drivers' = Opened(drivers, RunOwner)
                /\ pc' = "login"
           ELSE /\ UNCHANGED drivers
                /\ pc' = "ended"
    /\ UNCHANGED <<sessionIdle, mainLists, program, df, next_index, futures, output,
                   max_workers, prompts, writes>>

\* driver.get and wait_for_manual_login; a raising call leaves the try block
LoginSequential ==
    /\ pc = "login"
    /\ program = "sequential"
    /\ drivers' = Use(drivers, Len(drivers), RunOwner)
    /\ \E raises \in BOOLEAN :
           IF raises
           THEN /\ pc' = "quit"
                /\ UNCHANGED prompts
           ELSE /\ pc' = "loop"
                /\ prompts' = prompts + 1
    /\ UNCHANGED <<sessionIdle, mainLists, config, program, df, result_df, next_index, futures,
                   output, max_workers, writes>>

\* one iteration of for index, row in df.iterrows(); an interrupt is not an
\* Exception and leaves the loop
RowSequential ==
    /\ pc = "loop"
    /\ program = "sequential"
    /\ next_index < Len(df)
    /\ drivers' = Use(drivers, Len(drivers), RunOwner)
    /\ \E env \in SessionEnvs, interrupted \in BOOLEAN :
           IF interrupted
           THEN /\ pc' = "quit"
                /\ UNCHANGED <<result_df, next_index>>
           ELSE /\ result_df' = SequentialRow(result_df, next_index, df[next_index + 1],
                                              config, env)
                /\ next_index' = next_index + 1
                /\ UNCHANGED pc
    /\ UNCHANGED <<sessionIdle, mainLists, config, program, df, futures, output, max_workers,
                   prompts, writes>>

\* after the loop: to_csv, then the statistics
SaveSessionSequential ==
    /\ pc = "loop"
    /\ program = "sequential"
    /\ next_index = Len(df)
    /\ output' = [rows |-> ToCsv(result_df)]
    /\ pc' = "quit"
    /\ UNCHANGED <<sessionIdle, mainLists, config, program, df, result_df, next_index, futures,
                   max_workers, drivers, prompts, writes>>

\* finally: driver.quit()
QuitSequential ==
    /\ pc = "quit"
    /\ program = "sequential"
    /\ drivers' = CloseDriver(drivers, Len(drivers))
    /\ pc' = "ended"
    /\ UNCHANGED <<sessionIdle, mainLists, config, program, df, result_df, next_index, futures,
                   output, max_workers, prompts, writes>>

\* run up to initialize_browser: no data raises ValueError; initialize_browser
\* opens the browser or raises
SetupMain ==
    /\ pc = "setup"
    /\ program = "main"
    /\ IF df = <<>>
       THEN /\ pc' = "close"
            /\ UNCHANGED drivers
       ELSE \E made \in BOOLEAN :
                IF made
                THEN /\ drivers' = Opened(drivers, RunOwner)
                     /\ pc' = "session"
                ELSE /\ UNCHANGED drivers
                     /\ pc' = "close"
    /\ UNCHANGED <<sessionIdle, mainLists, config, program, df, result_df, next_index, futures,
                   output, max_workers, prompts, writes>>

\* check_ebay_session, and wait_for_manual_login when there is no session
SessionMain ==
    /\ pc = "session"
    /\ program = "main"
    /\ drivers' = Use(drivers, Len(drivers), RunOwner)
    /\ \E session \in BOOLEAN, login \in BOOLEAN :
           /\ pc' = IF session \/ login THEN "loop" ELSE "close"
           /\ prompts' = IF session THEN prompts ELSE prompts + 1
    /\ UNCHANGED <<sessionIdle, mainLists, config, program, df, result_df, next_index, futures,
                   output, max_workers, writes>>

\* one iteration of for i, item in enumerate(original_data); an interrupt is
\* not an Exception and leaves the loop
ItemMain ==
    /\ pc = "loop"
    /\ program = "main"
    /\ next_index < Len(df)
    /\ drivers' = Use(drivers, Len(drivers), RunOwner)
    /\ \E outcome \in MainOutcomes, best \in BestItems, interrupted \in BOOLEAN :
           IF interrupted
           THEN /\ pc' = "close"
                /\ UNCHANGED <<extraction_results, search_results, waits, searches,
                               next_index>>
           ELSE /\ extraction_results' =
                       ExtractionResultsAfter(extraction_results, next_index, outcome)
                /\ search_results' =
                       SearchResultsAfter(search_results, next_index, outcome, best)
                /\ waits' = WaitsAfter(waits, next_index, outcome)
                /\ searches' = MainSearchesAfter(searches, next_index, outcome)
                /\ next_index' = next_index + 1
                /\ UNCHANGED pc
    /\ UNCHANGED <<toolVars, priceVars, rowVars, extractVars, config_file, browsers, config,
                   program, df, result_df, futures, profit_items, output, max_workers, prompts,
                   writes>>

\* steps 4 and 5 of run, then return or except
FinishSessionMain ==
    /\ pc = "loop"
    /\ program = "main"
    /\ next_index = Len(df)
    /\ profit_items' = ProfitItems(df, search_results)
    /\ \E written \in BOOLEAN :
           output' = IF written
                     THEN [rows |-> GenerateResultData(df, extraction_results, search_results,
                                        ProfitItems(df, search_results))]
                     ELSE output
    /\ pc' = "close"
    /\ UNCHANGED <<toolVars, priceVars, rowVars, extractVars, config_file, browsers, config,
                   program, df, result_df, next_index, futures, extraction_results,
                   search_results, waits, searches, max_workers, drivers, prompts, writes>>

\* finally: if self.browser_controller: self.browser_controller.close_browser()
CloseMain ==
    /\ pc = "close"
    /\ program = "main"
    /\ drivers' = CloseBrowser(drivers)
    /\ pc' = "ended"
    /\ UNCHANGED <<sessionIdle, mainLists, config, program, df, result_df, next_index, futures,
                   output, max_workers, prompts, writes>>

NextSession ==
    \/ StartPool
    \/ \E i \in DOMAIN futures : StartItem(i)
    \/ \E i \in DOMAIN futures : GetPage(i)
    \/ \E i \in DOMAIN futures : SearchItem(i)
    \/ \E i \in DOMAIN futures : QuitItem(i)
    \/ \E i \in DOMAIN futures : Collect(i)
    \/ SavePool
    \/ SetupSequential
    \/ LoginSequential
    \/ RowSequential
    \/ SaveSessionSequential
    \/ QuitSequential
    \/ SetupMain
    \/ SessionMain
    \/ ItemMain
    \/ FinishSessionMain
    \/ CloseMain

SpecSession == InitSession /\ [][NextSession]_vars

\* the rows of the result table implied by the results of the futures alone
TableOfResults(frame, fs) ==
    [i \in 0..(Len(frame) - 1) |->
        [title |-> frame[i + 1].title, price |-> frame[i + 1].price,
         cells |-> IF fs[i].result # NoneProduct THEN fs[i].result.cells ELSE BlankCells]]

\* C21: in the parallel orchestrator a driver made by one call of
\* process_single_item is used by that call only, and two calls that run at
\* the same time hold different drivers
C21_DriverUsedByItsOwnerOnly ==
    program = "parallel" =>
        /\ \A d \in DOMAIN drivers : drivers[d].users \subseteq {drivers[d].owner}
        /\ \A i \in DOMAIN futures :
               futures[i].state \in {"get", "search", "quit"} =>
                   /\ futures[i].driver \in DOMAIN drivers
                   /\ drivers[futures[i].driver].owner = i
                   /\ \A j \in DOMAIN futures :
                          (j # i /\ futures[j].state \in {"get", "search", "quit"})
                              => futures[j].driver # futures[i].driver

\* two calls run at the same time, each has used the driver it made
C21_Witness ==
    /\ program = "parallel"
    /\ \E i, j \in DOMAIN futures :
           /\ i # j
           /\ futures[i].state = "quit"
           /\ futures[j].state = "quit"
           /\ drivers[futures[i].driver].users = {i}
           /\ drivers[futures[j].driver].users = {j}
           /\ drivers[futures[i].driver].open
           /\ drivers[futures[j].driver].open

\* C25: in a parallel run the login prompt is issued at most once
C25_LoginPromptAtMostOnce == program = "parallel" => prompts <= 1

\* C28: when a run has ended no driver it opened is open, and when a call of
\* process_single_item has returned the driver it made is closed
C28_OpenedSessionsAreClosed ==
    /\ pc = "ended" => \A d \in DOMAIN drivers : ~drivers[d].open
    /\ \A d \in DOMAIN drivers :
           (program = "parallel" /\ futures[drivers[d].owner].state \in {"done", "collected"})
               => ~drivers[d].open

\* a run that opened a browser has ended after a call raised or was
\* interrupted: no file was written
C28_Witness ==
    /\ pc = "ended"
    /\ drivers # <<>>
    /\ \A d \in DOMAIN drivers : ~drivers[d].open
    /\ \/ program \in {"sequential", "main"} /\ output = NotRun
       \/ /\ program = "parallel"
          /\ \E i \in DOMAIN futures :
                 /\ futures[i].driver # 0
                 /\ drivers[futures[i].driver].users = {i}
                 /\ futures[i].result = NoneProduct

\* C29: the result table is written by the collecting thread only, a result
\* is written to the row of its index, a row is written at most once, and
\* after the last future was collected the table is the one the results of
\* the futures imply, whatever the order of completion
C29_TableWrittenByCollectorByIndex ==
    program = "parallel" =>
        /\ \A k \in DOMAIN writes :
               /\ writes[k].by = MainThread
               /\ writes[k].row = futures[writes[k].item].result.index
               /\ writes[k].row = writes[k].item
               /\ \A m \in DOMAIN writes : writes[m].row = writes[k].row => m = k
        /\ (pc = "pool" /\ \A i \in DOMAIN futures : futures[i].state = "collected")
               => result_df = TableOfResults(df, futures)
        /\ pc = "pool" =>
               \A i \in DOMAIN futures :
                   futures[i].state # "collected" => result_df[i].cells = BlankCells

\* two results were collected, the later item first
C29_Witness ==
    /\ program = "parallel"
    /\ Len(writes) = 2
    /\ writes[1].item > writes[2].item
    /\ \A i \in DOMAIN futures : futures[i].state = "collected"

=============================================================================
